---- MODULE Spec2Model ----
(***************************************************************************)
(* A model of the orchestration core of meto: the agent loop                *)
(* (agent_loop.run_agent_loop), the tool dispatch and permission gate       *)
(* (tool_runner.run_tool), the permission policy table                      *)
(* (permission_policy.PERMISSION_REQUIRED) and the hooks manager            *)
(* (hooks.HooksManager).                                                    *)
(*                                                                          *)
(* Strings built by the code with f-strings are sequences of tokens, so     *)
(* that "contains" and "equals" stay decidable: f"Unknown tool: {name}" is  *)
(* <<"Unknown tool: ", name>>.                                              *)
(***************************************************************************)
EXTENDS Integers, Sequences, FiniteSets, TLC

VARIABLES
    agent,        \* the Agent: max_turns, yolo_mode, run_hooks, allowed_tools, skill_loader
    prompt,       \* the prompt argument of run_agent_loop
    pc,           \* position of run_agent_loop (or "direct": run_tool called on its own)
    turn,         \* _turn of the for loop over range(max_turns)
    interrupted,  \* the nonlocal flag set by signal_handler
    sigint,       \* the SIGINT handler installed in the process
    history,      \* agent.session.history
    log,          \* entries written through agent.session.session_logger
    cur,          \* the model response of the current turn: content and tool_calls
    idx,          \* index of the tool call the inner for loop is at (1-based)
    rt,           \* the activation of run_tool
    outcome,      \* how the run ended
    modelCalls,   \* number of chat.completions.create calls made by the run
    execs,        \* handler invocations of the run, in order
    prompts,      \* confirmation prompts of the run, in order
    yielded,      \* texts yielded by the generator, in order
    hk,           \* the activation of HooksManager.run_hooks
    ses           \* the Session besides its history, and the session files on disk

vars == <<agent, prompt, pc, turn, interrupted, sigint, history, log, cur, idx, rt,
          outcome, modelCalls, execs, prompts, yielded, hk, ses>>

----------------------------------------------------------------------------
(* Bounds of the model *)

MaxTurnsBound == 2
MaxCalls == 2
MaxHooks == 2
MaxSessionSteps == 4
MaxTodoLen == 2

----------------------------------------------------------------------------
(* Tool names: tool_schema.TOOLS, the dispatch of run_tool, the policy table *)

TOOLS ==
    <<"shell", "list_dir", "read_file", "write_file", "grep_search", "fetch",
      "manage_todos", "run_task", "ask_user_question", "load_skill">>

SeqToSet(s) == {s[i] : i \in 1..Len(s)}

DispatchNames ==
    {"shell", "list_dir", "read_file", "write_file", "grep_search", "fetch",
     "manage_todos", "run_task", "ask_user_question", "load_skill"}

(* get_tools_for_agent: "*" gives every schema, a list gives the named ones *)
get_tools_for_agent(requested) ==
    IF requested = {"*"} THEN TOOLS
    ELSE SelectSeq(TOOLS, LAMBDA n : n \in requested)

(* Agent.tool_names / Agent.has_tool *)
tool_names(a) == SeqToSet(get_tools_for_agent(a.allowed_tools))

has_tool(a, name) == name \in tool_names(a)

----------------------------------------------------------------------------
(* Paths, for ExternalPathPermissionCheck.                                  *)
(* A path argument is absent, the empty string, a string with a NUL byte,   *)
(* a value that is no path (object()), or a path: absolute or relative,     *)
(* possibly starting with "~", made of components.                          *)

CwdDir == <<"work">>
HomeDir == <<"home">>
PLAN_DIR == <<"home", ".meto", "plans">>
AGENTS_DIR == <<"work", ".meto", "agents">>
COMMANDS_DIR == <<"work", ".meto", "commands">>
SKILLS_DIR == <<"work", ".meto", "skills">>

allowed_dirs == <<CwdDir, PLAN_DIR, AGENTS_DIR, COMMANDS_DIR, SKILLS_DIR>>

NoPath == [kind |-> "absent", root |-> "rel", segs |-> <<>>]
EmptyPath == [kind |-> "empty", root |-> "rel", segs |-> <<>>]
NulPath == [kind |-> "nul", root |-> "rel", segs |-> <<"a">>]
NonPath == [kind |-> "nonpath", root |-> "rel", segs |-> <<>>]
MkPath(root, segs) == [kind |-> "path", root |-> root, segs |-> segs]

PathArgs ==
    {NoPath, EmptyPath, NulPath,
     MkPath("rel", <<"a.txt">>),
     MkPath("abs", <<"etc", "passwd">>),
     MkPath("rel", <<"..", "etc">>),
     MkPath("abs", <<"work", "..", "work", "b">>),
     MkPath("home", <<".meto", "plans", "p.md">>),
     MkPath("home", <<"notes">>),
     NonPath,
     MkPath("rel", <<"link", "shadow">>),
     MkPath("abs", <<"tmp", "in", "x">>)}

(* The symbolic links of the file system: work/link -> /etc, /tmp/in -> /work *)
ReadLink(p) ==
    IF p = <<"work", "link">> THEN <<"etc">>
    ELSE IF p = <<"tmp", "in">> THEN <<"work">>
    ELSE p

RECURSIVE Normalize(_, _)
(* Path.resolve(): ".." drops the last component (the root is its own parent) *)
Normalize(acc, segs) ==
    IF segs = <<>> THEN acc
    ELSE IF Head(segs) = ".."
         THEN Normalize(IF acc = <<>> THEN <<>> ELSE SubSeq(acc, 1, Len(acc) - 1),
                        Tail(segs))
         ELSE Normalize(ReadLink(Append(acc, Head(segs))), Tail(segs))

(* The path joined to its root, with ".." and links left as they are *)
ResolvePathLexical(p) ==
    (CASE p.root = "abs" -> <<>>
       [] p.root = "home" -> HomeDir
       [] OTHER -> CwdDir) \o p.segs

(* Path(path).expanduser().resolve() *)
ResolvePath(p) ==
    Normalize(<<>>,
              (CASE p.root = "abs" -> <<>>
                 [] p.root = "home" -> HomeDir
                 [] OTHER -> CwdDir) \o p.segs)

(* target_path.relative_to(allowed_dir) does not raise ValueError *)
IsRelativeTo(target, dir) ==
    /\ Len(dir) <= Len(target)
    /\ SubSeq(target, 1, Len(dir)) = dir

----------------------------------------------------------------------------
(* Permission policy *)

AlwaysRequire(detail_arg) == [variant |-> "AlwaysRequire", detail_arg |-> detail_arg]
NeverRequire == [variant |-> "NeverRequire", detail_arg |-> ""]
ExternalPath == [variant |-> "ExternalPath", detail_arg |-> "path"]

(* A policy table that has lost the entry of load_skill *)
PolicyNamesWithoutLoadSkill ==
    {"shell", "list_dir", "read_file", "write_file", "grep_search", "fetch",
     "manage_todos", "run_task", "ask_user_question"}

PolicyNames ==
    {"shell", "list_dir", "read_file", "write_file", "grep_search", "fetch",
     "manage_todos", "run_task", "ask_user_question", "load_skill"}

PERMISSION_REQUIRED(name) ==
    CASE name = "shell" -> AlwaysRequire("command")
      [] name = "list_dir" -> NeverRequire
      [] name = "read_file" -> ExternalPath
      [] name = "write_file" -> ExternalPath
      [] name = "grep_search" -> ExternalPath
      [] name = "fetch" -> AlwaysRequire("url")
      [] name = "manage_todos" -> NeverRequire
      [] name = "run_task" -> NeverRequire
      [] name = "ask_user_question" -> NeverRequire
      [] name = "load_skill" -> NeverRequire

(* is_required without "if not path: return False" *)
ExternalPathIsRequiredNoEarlyReturn(args) ==
    IF args.path.kind \in {"absent", "empty", "nul", "nonpath"} THEN TRUE
    ELSE LET target == ResolvePath(args.path)
         IN  ~ \E i \in 1..Len(allowed_dirs) : IsRelativeTo(target, allowed_dirs[i])

(* ExternalPathPermissionCheck.is_required *)
ExternalPathIsRequired(args) ==
    IF args.path.kind \in {"absent", "empty"} THEN FALSE
    ELSE IF args.path.kind \in {"nul", "nonpath"} THEN TRUE
    ELSE LET target == ResolvePath(args.path)
         IN  ~ \E i \in 1..Len(allowed_dirs) : IsRelativeTo(target, allowed_dirs[i])

(* is_required that looks at the path whatever the policy *)
is_required_by_path(policy, args) ==
    policy.variant = "AlwaysRequire" \/ ExternalPathIsRequired(args)

(* PermissionCheck.is_required *)
is_required(policy, args) ==
    CASE policy.variant = "AlwaysRequire" -> TRUE
      [] policy.variant = "NeverRequire" -> FALSE
      [] OTHER -> ExternalPathIsRequired(args)

(* PermissionCheck.prompt_detail: the text shown in the prompt *)
prompt_detail(policy, args) ==
    CASE policy.variant = "AlwaysRequire" ->
            IF policy.detail_arg = "command" THEN <<args.command>> ELSE <<args.url>>
      [] policy.variant = "NeverRequire" -> <<"">>
      [] OTHER -> <<"path:", args.path.kind>> \o args.path.segs

(* Parameter maps given to run_tool *)
Params(path, command, url) ==
    [path |-> path, command |-> command, url |-> url, agent_name |-> ""]

(* The parameters of a run_task call: agent_name, with "" when it is absent *)
TaskParams(agent_name) == [Params(NoPath, "", "") EXCEPT !.agent_name = agent_name]
EmptyParams == Params(NoPath, "", "")

ParamMaps ==
    {Params(p, "", "") : p \in PathArgs}
        \cup {Params(NoPath, "ls", ""), Params(NoPath, "", "https://example.com")}
        \cup {TaskParams("explore"), TaskParams("nobody")}

----------------------------------------------------------------------------
(* Hooks manager *)

EXIT_OK == 0
EXIT_BLOCK == 2

(* What running the command of a hook does.  A command whose first token    *)
(* ends in .py is first run with sys.executable (py: how that ends); a      *)
(* shell command, or a script whose run with sys.executable raised, is run  *)
(* by the shell runner (sh: how that ends).                                 *)
ExitOutcomes == {"exit0", "exit1", "exit2"}
ShellCommand(sh) == [python |-> FALSE, py |-> "none", sh |-> sh]
PythonScript(py, sh) == [python |-> TRUE, py |-> py, sh |-> sh]

(* The exit code of a process that ended with the outcome *)
ExitCode(out) ==
    CASE out = "exit0" -> EXIT_OK
      [] out = "exit2" -> EXIT_BLOCK
      [] OTHER -> 1

(* HookConfig: the command is described by what running it does *)
Hook(name, event, tools, behaviour) ==
    [name |-> name, event |-> event, tools |-> tools, behaviour |-> behaviour]

(* HooksConfig.load_from_yaml of the hooks file of the process *)
HooksFile ==
    <<Hook("audit", "post_tool_use", {}, ShellCommand("exit0")),
      Hook("guard-shell", "pre_tool_use", {"shell", "list_dir"}, ShellCommand("exit2")),
      Hook("lint", "pre_tool_use", {}, ShellCommand("exit0"))>>

NoTool == "<None>"

(* HooksManager.__post_init__: the hooks of an event, in the order of the file *)
hooks_by_event(config, event) == SelectSeq(config, LAMBDA h : h.event = event)

(* get_hooks_for_event that forgets the tool filter *)
get_hooks_for_event_unfiltered(config, event, tool_name) ==
    hooks_by_event(config, event)

(* HooksManager.get_hooks_for_event *)
get_hooks_for_event(config, event, tool_name) ==
    IF tool_name = NoTool
    THEN hooks_by_event(config, event)
    ELSE SelectSeq(hooks_by_event(config, event),
                   LAMBDA h : h.tools = {} \/ tool_name \in h.tools)

(* The HookResult of a process that ended: blocked whatever the event *)
ProcessResultBlocksAnyEvent(hook, event, code) ==
    [hook_name |-> hook.name, success |-> (code = EXIT_OK), exit_code |-> code,
     blocked |-> (code = EXIT_BLOCK), error |-> "none"]

(* The HookResult of a process that ended with an exit code *)
ProcessResult(hook, event, code) ==
    [hook_name |-> hook.name, success |-> (code = EXIT_OK), exit_code |-> code,
     blocked |-> (event = "pre_tool_use" /\ code = EXIT_BLOCK), error |-> "none"]

(* The HookResult of a failure: blocked whatever the event *)
FailureResultBlocksAnyEvent(hook, event, error) ==
    [hook_name |-> hook.name, success |-> FALSE, exit_code |-> -1,
     blocked |-> TRUE, error |-> error]

(* The HookResult when no runner is found, on a timeout, on an exception *)
FailureResult(hook, event, error) ==
    [hook_name |-> hook.name, success |-> FALSE, exit_code |-> -1,
     blocked |-> (event = "pre_tool_use"), error |-> error]

(* HooksManager._run_hook: the HookResult of one hook *)
run_hook(hook, event) ==
    LET b == hook.behaviour
    IN  IF b.python /\ b.py \in ExitOutcomes
        THEN ProcessResult(hook, event, ExitCode(b.py))
        ELSE CASE b.sh = "norunner" -> FailureResult(hook, event, "No shell runner available")
               [] b.sh \in ExitOutcomes -> ProcessResult(hook, event, ExitCode(b.sh))
               [] b.sh = "timeout" -> FailureResult(hook, event, "Timeout")
               [] OTHER -> FailureResult(hook, event, "str(e)")

(* How many times _run_hook starts the command of the hook as a process:   *)
(* subprocess.run of run_python_script starts it unless it raises before,   *)
(* and after a timeout or an exception of that stage the shell runner       *)
(* starts the same command                                                  *)
ShellStarts(b) == IF b.sh \in ExitOutcomes \cup {"timeout"} THEN 1 ELSE 0
ProcessStarts(hook) ==
    LET b == hook.behaviour
    IN  IF ~ b.python THEN ShellStarts(b)
        ELSE CASE b.py \in ExitOutcomes -> 1
               [] b.py = "timeout" -> 1 + ShellStarts(b)
               [] OTHER -> ShellStarts(b)

(* run_hooks that goes on after a block *)
StopsNever(event, result) == FALSE

(* "if event == 'pre_tool_use' and result_obj.blocked: break" *)
StopsAfter(event, result) == event = "pre_tool_use" /\ result.blocked

RECURSIVE RunHookList(_, _, _)
RunHookList(hs, event, results) ==
    IF hs = <<>> THEN results
    ELSE LET r == run_hook(Head(hs), event)
         IN  IF StopsAfter(event, r)
             THEN Append(results, r)
             ELSE RunHookList(Tail(hs), event, Append(results, r))

(* HooksManager.run_hooks *)
run_hooks(config, event, tool) ==
    RunHookList(get_hooks_for_event(config, event, tool), event, <<>>)

(* "For pre_tool_use, check if any result.blocked is True" *)
PreToolUseBlocked(config, tool) ==
    LET rs == run_hooks(config, "pre_tool_use", tool)
    IN  \E i \in 1..Len(rs) : rs[i].blocked

(* The hooks a file may hold, without their names *)
HookPool ==
    {Hook("", "pre_tool_use", {}, b) :
        b \in {ShellCommand("exit0"), ShellCommand("exit1"), ShellCommand("exit2"),
               ShellCommand("timeout"), ShellCommand("raises"), ShellCommand("norunner"),
               PythonScript("exit2", "exit0"), PythonScript("timeout", "exit1"),
               PythonScript("raises", "exit0"), PythonScript("timeout", "timeout")}}
        \cup {Hook("", "pre_tool_use", {"shell"}, b) :
                 b \in {ShellCommand("exit0"), ShellCommand("exit2")}}
        \cup {Hook("", "post_tool_use", {}, b) :
                 b \in {ShellCommand("exit0"), ShellCommand("exit2"),
                        ShellCommand("timeout"), ShellCommand("raises"),
                        ShellCommand("norunner")}}
        \cup {Hook("", "post_tool_use", {"shell"}, ShellCommand("exit1"))}
        \cup {Hook("", "session_start", {}, b) :
                 b \in {ShellCommand("exit0"), ShellCommand("exit2"),
                        ShellCommand("timeout")}}

(* A hooks file: its hooks are named by their position *)
NamedByPosition(hs) == [i \in 1..Len(hs) |-> [hs[i] EXCEPT !.name = ToString(i)]]

HookConfigs ==
    UNION {{NamedByPosition(hs) : hs \in [1..n -> HookPool]} : n \in 0..MaxHooks}

(* The calls of run_hooks: the event and the tool *)
HookCalls ==
    {[event |-> "pre_tool_use", tool |-> "shell"],
     [event |-> "pre_tool_use", tool |-> "list_dir"],
     [event |-> "post_tool_use", tool |-> "shell"],
     [event |-> "post_tool_use", tool |-> "list_dir"],
     [event |-> "session_start", tool |-> NoTool]}

IdleHk ==
    [phase |-> "idle", config |-> <<>>, event |-> "none", tool |-> NoTool,
     matched |-> <<>>, pending |-> <<>>, results |-> <<>>, executed |-> <<>>,
     started |-> <<>>]

(* Python's None where a string may stand *)
PyNone == "<None>"

(* ModeExitResult before any mode was left *)
NoExit ==
    [artifact_path |-> PyNone, artifact_content |-> PyNone,
     followup_system_message |-> PyNone]

(* The Session object: Session.__init__ without sid, with FileSessionLogger; *)
(* files are the session files on disk by session id, plan_content is the   *)
(* content of the plan file of the active mode (PyNone: no such file)       *)
IdleSes ==
    [session_id |-> 1, ids |-> 1, files |-> [i \in 1..(MaxSessionSteps + 1) |-> <<>>],
     todos |-> <<>>, plan_mode |-> FALSE, start_implementation |-> FALSE,
     mode |-> PyNone, plan_file |-> PyNone, plan_content |-> PyNone, plans |-> 0,
     last_mode_exit |-> NoExit, returned |-> NoExit, printed |-> "",
     raised |-> "none", steps |-> 0]

(* The call run_hooks(event, session_id, tool) of a manager with the config *)
CallRunHooks(config, event, tool) ==
    [IdleHk EXCEPT !.phase = "enter", !.config = config, !.event = event, !.tool = tool]

(* get_hooks_for_event, and "if not hooks: return []" *)
HooksEnter ==
    /\ hk.phase = "enter"
    /\ LET hooks == get_hooks_for_event(hk.config, hk.event, hk.tool)
       IN  hk' = [hk EXCEPT !.matched = hooks, !.pending = hooks,
                            !.phase = IF hooks = <<>> THEN "return" ELSE "loop"]
    /\ UNCHANGED <<ses, agent, prompt, pc, turn, interrupted, sigint, history, log, cur, idx,
                   rt, outcome, modelCalls, execs, prompts, yielded>>

(* One turn of "for hook in hooks": the hook runs and its result is kept *)
HooksRunOne ==
    /\ hk.phase = "loop"
    /\ hk.pending # <<>>
    /\ LET hook == Head(hk.pending)
           r == run_hook(hook, hk.event)
       IN  hk' = [hk EXCEPT !.results = Append(hk.results, r),
                            !.executed = Append(hk.executed, hook.name),
                            !.started = hk.started \o
                                [i \in 1..ProcessStarts(hook) |-> hook.name],
                            !.pending = Tail(hk.pending),
                            !.phase = IF StopsAfter(hk.event, r) \/ Tail(hk.pending) = <<>>
                                      THEN "return" ELSE "loop"]
    /\ UNCHANGED <<ses, agent, prompt, pc, turn, interrupted, sigint, history, log, cur, idx,
                   rt, outcome, modelCalls, execs, prompts, yielded>>

----------------------------------------------------------------------------
(* run_tool: results *)

Cancelled(tool_name) == <<"(", tool_name, " cancelled by user)">>
UnknownToolError(tool_name) == <<"Error: ", "Unknown tool: ", tool_name>>
HandlerOutput(tool_name) == <<"<output of ", tool_name, ">">>
ExceptionText(tool_name) == <<"<str(e) raised in ", tool_name, ">">>
SubagentErrorText ==
    <<"(subagent error: ",
      "Agent.subagent() got an unexpected keyword argument 'plan_mode'", ")">>

UnknownAgentErrorText(name) ==
    <<"(subagent error: ", "Unknown agent type '", name, "'", ")">>
SubagentOutput(name) == <<"<output of subagent ", name, ">">>
NoOutputText == <<"(subagent returned no output)">>
SubagentRaisedText(name) == <<"(subagent error: ", "<str(ex) raised in ", name, ">", ")">>

Contains(text, token) == \E i \in 1..Len(text) : text[i] = token

HandlerOutcomes == {"returns", "raises"}
PromptAnswers == {"y", "n", "abort"}

NoCall == [t |-> -1, i |-> 0]

(* The built-in agent types of the registry *)
BUILTIN_AGENTS == {"explore", "code", "plan"}

(* The parameters of Agent.subagent(cls, name, yolo_mode=False) *)
SubagentParameters == {"name", "yolo_mode"}

(* The keywords of the call Agent.subagent(agent_name, plan_mode=..., yolo_mode=...) *)
ExecuteTaskKeywords == {"plan_mode", "yolo_mode"}

(* The call binds its arguments; when it does not it raises TypeError *)
SubagentCallBinds == ExecuteTaskKeywords \subseteq SubagentParameters

(* The subagent of one run_task call: none before Agent.subagent returns;   *)
(* Agent.subagent gives it Session(session_logger_cls=NullSessionLogger), a *)
(* new session id and history = []                                          *)
NoChild == [started |-> FALSE, session |-> "none", history |-> <<>>]
NewChild == [started |-> TRUE, session |-> "new", history |-> <<>>]

IdleRt ==
    [phase |-> "idle", tool |-> "", params |-> EmptyParams, yolo |-> FALSE,
     session |-> FALSE, skill_loader |-> FALSE, id |-> NoCall,
     prompted |-> FALSE, answer |-> "none", ran |-> FALSE,
     kind |-> "none", result |-> <<>>, child |-> NoChild]

(* The call run_tool(tool_name, parameters, logger, session, skill_loader, yolo_mode) *)
CallRunTool(tool_name, parameters, session, skill_loader, yolo_mode, id) ==
    [IdleRt EXCEPT !.phase = "enter", !.tool = tool_name, !.params = parameters,
                   !.yolo = yolo_mode, !.session = session,
                   !.skill_loader = skill_loader, !.id = id]

(* _prompt_permission that takes any end of the prompt for a yes *)
prompt_permission_ignored(answer) == TRUE

(* _prompt_permission: confirm(), with EOFError and KeyboardInterrupt giving False *)
prompt_permission(answer) == answer = "y"

(* Whether the dispatch of run_tool reaches a handler for the name *)
DispatchRunsHandler(r) ==
    /\ r.tool \in DispatchNames
    /\ (r.tool = "manage_todos" => r.session)
    /\ (r.tool = "load_skill" => r.skill_loader)

(* The result of the dispatch when no handler is called *)
DispatchNoHandlerResult(r) ==
    CASE r.tool = "manage_todos" -> <<"Error: ", "session required for manage_todos">>
      [] r.tool = "load_skill" -> <<"Error: ", "skill_loader not available">>
      [] OTHER -> UnknownToolError(r.tool)

(* The handler's end without the except clause *)
HandlerEndPropagates(r, how) ==
    IF how = "returns"
    THEN [r EXCEPT !.phase = "return", !.kind = "normal",
                   !.result = HandlerOutput(r.tool)]
    ELSE [r EXCEPT !.phase = "raised"]

(* _execute_task without its try/except: the exception reaches the except   *)
(* clause of run_tool                                                       *)
execute_task_unguarded(r, how) ==
    [r EXCEPT !.phase = "return", !.kind = "error", !.result = ExceptionText(r.tool)]

(* _execute_task: Agent.subagent, then the child's run_agent_loop, with any *)
(* exception turned into the "(subagent error: ...)" string                 *)
execute_task(r, how) ==
    IF ~ SubagentCallBinds
    THEN [r EXCEPT !.phase = "return", !.kind = "error", !.result = SubagentErrorText]
    ELSE IF r.params.agent_name \notin BUILTIN_AGENTS
    THEN [r EXCEPT !.phase = "return", !.kind = "error",
                   !.result = UnknownAgentErrorText(r.params.agent_name)]
    ELSE IF how = "returns"
    THEN [r EXCEPT !.phase = "return", !.kind = "normal", !.child = NewChild,
                   !.result = SubagentOutput(r.params.agent_name)]
    ELSE [r EXCEPT !.phase = "return", !.kind = "error", !.child = NewChild,
                   !.result = SubagentRaisedText(r.params.agent_name)]

(* The try/except around the dispatch: what run_tool does with the handler's end *)
HandlerEnd(r, how) ==
    IF r.tool = "run_task"
    THEN execute_task(r, how)
    ELSE IF how = "returns"
    THEN [r EXCEPT !.phase = "return", !.kind = "normal",
                   !.result = HandlerOutput(r.tool)]
    ELSE [r EXCEPT !.phase = "return", !.kind = "error",
                   !.result = ExceptionText(r.tool)]

----------------------------------------------------------------------------
(* run_tool: the steps of one activation *)

(* The permission check that lets a name without a policy through *)
NeedsPromptFailOpen(r) ==
    /\ ~ r.yolo
    /\ r.tool \in PolicyNames
    /\ is_required(PERMISSION_REQUIRED(r.tool), r.params)

(* Whether run_tool asks for permission before the dispatch (lines 410-418) *)
NeedsPrompt(r) ==
    /\ ~ r.yolo
    /\ IF r.tool \in PolicyNames
       THEN is_required(PERMISSION_REQUIRED(r.tool), r.params)
       ELSE TRUE

(* The detail of the prompt *)
PromptDetail(r) ==
    IF r.tool \in PolicyNames
    THEN prompt_detail(PERMISSION_REQUIRED(r.tool), r.params)
    ELSE <<"(no details available)">>

(* The permission check: prompt, or go on to the dispatch *)
RunToolPermission ==
    /\ rt.phase = "enter"
    /\ rt' = [rt EXCEPT !.phase = IF NeedsPrompt(rt) THEN "prompt" ELSE "dispatch"]
    /\ UNCHANGED <<ses, hk, agent, prompt, pc, turn, interrupted, sigint, history, log, cur, idx,
                   outcome, modelCalls, execs, prompts, yielded>>

(* The user answers the prompt of _prompt_permission *)
RunToolPrompt ==
    /\ rt.phase = "prompt"
    /\ \E answer \in PromptAnswers :
          rt' = IF prompt_permission(answer)
                THEN [rt EXCEPT !.phase = "dispatch", !.prompted = TRUE,
                                !.answer = answer]
                ELSE [rt EXCEPT !.phase = "return", !.prompted = TRUE,
                                !.answer = answer, !.kind = "cancelled",
                                !.result = Cancelled(rt.tool)]
    /\ prompts' = Append(prompts, [id |-> rt.id, tool |-> rt.tool,
                                   detail |-> PromptDetail(rt)])
    /\ UNCHANGED <<ses, hk, agent, prompt, pc, turn, interrupted, sigint, history, log, cur, idx,
                   outcome, modelCalls, execs, yielded>>

(* The child loop that runs while the handler of run_task does: none when  *)
(* Agent.subagent raises                                                    *)
TaskChild(r) ==
    IF r.tool = "run_task" /\ SubagentCallBinds /\ r.params.agent_name \in BUILTIN_AGENTS
    THEN NewChild
    ELSE NoChild

(* The dispatch: the handler of the tool starts, or an error string is returned *)
RunToolDispatch ==
    /\ rt.phase = "dispatch"
    /\ IF DispatchRunsHandler(rt)
       THEN /\ rt' = [rt EXCEPT !.phase = "running", !.ran = TRUE,
                                !.child = TaskChild(rt)]
            /\ execs' = Append(execs, [id |-> rt.id, tool |-> rt.tool])
       ELSE /\ rt' = [rt EXCEPT !.phase = "return", !.kind = "error",
                                !.result = DispatchNoHandlerResult(rt)]
            /\ UNCHANGED execs
    /\ UNCHANGED <<ses, hk, agent, prompt, pc, turn, interrupted, sigint, history, log, cur, idx,
                   outcome, modelCalls, prompts, yielded>>

(* The handler ends: it returns its output or raises *)
RunToolHandlerEnds ==
    /\ rt.phase = "running"
    /\ \E how \in HandlerOutcomes : rt' = HandlerEnd(rt, how)
    /\ UNCHANGED <<ses, hk, agent, prompt, pc, turn, interrupted, sigint, history, log, cur, idx,
                   outcome, modelCalls, execs, prompts, yielded>>

----------------------------------------------------------------------------
(* The model: responses of chat.completions.create *)

(* A tool call of a response: type, function name (a string or not),       *)
(* and the arguments string, described by what json.loads makes of it      *)
ToolCall(type, nameIsStr, name, args, params) ==
    [type |-> type, nameIsStr |-> nameIsStr, name |-> name, args |-> args,
     params |-> params]

OutsidePath == MkPath("abs", <<"etc", "passwd">>)

(* The responses with tool calls are prefixes of these scripts *)
ModelScripts ==
    {[content |-> "text",
      tool_calls |->
        <<ToolCall("function", TRUE, "nope", "object", EmptyParams),
          ToolCall("function", TRUE, "shell", "object", Params(NoPath, "ls", "")),
          ToolCall("function", TRUE, "list_dir", "malformed", EmptyParams)>>],
     [content |-> "",
      tool_calls |->
        <<ToolCall("custom", TRUE, "shell", "object", Params(NoPath, "ls", "")),
          ToolCall("function", TRUE, "read_file", "object", Params(OutsidePath, "", "")),
          ToolCall("function", FALSE, "None", "object", EmptyParams)>>],
     [content |-> "",
      tool_calls |->
        <<ToolCall("function", TRUE, "list_dir", "nonobject", EmptyParams),
          ToolCall("function", TRUE, "shell", "missing", EmptyParams),
          ToolCall("function", TRUE, "nope", "object", EmptyParams)>>],
     [content |-> "text",
      tool_calls |->
        <<ToolCall("function", TRUE, "run_task", "object", TaskParams("explore"))>>]}

Min(a, b) == IF a < b THEN a ELSE b

Contents == {"", "text"}

(* What chat.completions.create may return: text only, or text and tool calls *)
Responses ==
    {[content |-> c, tool_calls |-> <<>>] : c \in Contents}
        \cup UNION {{[content |-> s.content,
                      tool_calls |-> SubSeq(s.tool_calls, 1, k)] :
                        k \in 1..Min(MaxCalls, Len(s.tool_calls))} :
                    s \in ModelScripts}

NoResponse == [content |-> "", tool_calls |-> <<>>]

(* The tool calls of a response with the ids the model gives them *)
WithIds(tcs, t) ==
    [i \in 1..Len(tcs) |->
        [id |-> [t |-> t, i |-> i], type |-> tcs[i].type,
         nameIsStr |-> tcs[i].nameIsStr, name |-> tcs[i].name,
         args |-> tcs[i].args, params |-> tcs[i].params]]

(* The arguments handed on as the model wrote them *)
ParseArgumentsPassesRaw(tc) == Params(NoPath, tc.args, "")

(* json.loads of the arguments string, then the isinstance(dict) check *)
ParseArguments(tc) ==
    IF tc.args = "object" THEN tc.params ELSE EmptyParams

----------------------------------------------------------------------------
(* run_agent_loop *)

Prompts == {"", "  ", "fix the bug"}

(* "if not prompt:" without the strip *)
IsBlankOnlyEmpty(p) == p = ""

(* prompt.strip() is empty *)
IsBlank(p) == p \in {"", "  "}

UserMessage(content) == [role |-> "user", content |-> content]

(* The assistant message: tool_calls only when the response has some *)
AssistantMessage(content, tool_calls) ==
    IF tool_calls = <<>>
    THEN [role |-> "assistant", content |-> content]
    ELSE [role |-> "assistant", content |-> content, tool_calls |-> tool_calls]

ToolMessage(id, content) == [role |-> "tool", tool_call_id |-> id, content |-> content]

UnknownTool(name) == <<"Unknown tool: ", name>>

(* The finally block: the handler found at the start is put back *)
Finish(how) ==
    /\ pc' = "done"
    /\ outcome' = how
    /\ sigint' = "original"

(* ReasoningLogger(session_id, name) of line 59 opens the trace file with   *)
(* logging.FileHandler: it returns or raises OSError                        *)
LoggerOutcomes == {"made", "raises"}

(* "if not prompt.strip(): return", else install the handler, make the      *)
(* reasoning logger and, inside the try statement, append the prompt; an    *)
(* exception of the constructor leaves the function before the try          *)
(* statement, with the handler of the loop installed                        *)
Start ==
    /\ pc = "start"
    /\ IF IsBlank(prompt)
       THEN /\ pc' = "done"
            /\ outcome' = "Done"
            /\ UNCHANGED <<sigint, history, log>>
       ELSE \E made \in LoggerOutcomes :
               IF made = "made"
               THEN /\ pc' = "turn_top"
                    /\ sigint' = "loop"
                    /\ history' = Append(history, UserMessage(prompt))
                    /\ log' = Append(log, UserMessage(prompt))
                    /\ UNCHANGED outcome
               ELSE /\ pc' = "done"
                    /\ sigint' = "loop"
                    /\ outcome' = "Error"
                    /\ UNCHANGED <<history, log>>
    /\ UNCHANGED <<ses, hk, agent, prompt, turn, interrupted, cur, idx, rt, modelCalls, execs,
                   prompts, yielded>>

(* SIGINT is delivered while the handler of the loop is installed *)
Sigint ==
    /\ sigint = "loop"
    /\ pc # "done"
    /\ ~ interrupted
    /\ interrupted' = TRUE
    /\ UNCHANGED <<ses, hk, agent, prompt, pc, turn, sigint, history, log, cur, idx, rt, outcome,
                   modelCalls, execs, prompts, yielded>>

(* "for _turn in range(agent.max_turns)" has no next value *)
RangeExhaustedOffByOne(t, max_turns) == t > max_turns
RangeExhausted(t, max_turns) == t >= max_turns

(* "if interrupted:" at the start of a turn *)
InterruptCheckMissing(flag) == FALSE
InterruptCheck(flag) == flag

(* The top of a turn: the for statement, the interrupt check, the request *)
TurnTop ==
    /\ pc = "turn_top"
    /\ IF RangeExhausted(turn, agent.max_turns)
       THEN Finish("MaxTurnsExceeded")
       ELSE IF InterruptCheck(interrupted)
       THEN Finish("Interrupted")
       ELSE /\ pc' = "model_call"
            /\ UNCHANGED <<outcome, sigint>>
    /\ UNCHANGED <<ses, hk, agent, prompt, turn, interrupted, history, log, cur, idx, rt,
                   modelCalls, execs, prompts, yielded>>

(* chat.completions.create returns a response *)
ModelResponds ==
    /\ pc = "model_call"
    /\ \E resp \in Responses :
          cur' = [content |-> resp.content,
                  tool_calls |-> WithIds(resp.tool_calls, turn)]
    /\ modelCalls' = modelCalls + 1
    /\ pc' = "responded"
    /\ UNCHANGED <<ses, hk, agent, prompt, turn, interrupted, sigint, history, log, idx, rt,
                   outcome, execs, prompts, yielded>>

(* chat.completions.create raises: the exception leaves the loop *)
ModelRaises ==
    /\ pc = "model_call"
    /\ modelCalls' = modelCalls + 1
    /\ Finish("Error")
    /\ UNCHANGED <<ses, hk, agent, prompt, turn, interrupted, history, log, cur, idx, rt,
                   execs, prompts, yielded>>

(* "if not tool_calls:" *)
NoToolCallsNeverReturns(tool_calls) == FALSE
NoToolCalls(tool_calls) == tool_calls = <<>>

(* The inner for statement goes to the next tool call *)
NextIndexSkipsOne(i) == i + 2
NextIndex(i) == i + 1

(* The assistant message is appended and logged, the content is yielded,   *)
(* and the run returns when the response has no tool calls                 *)
AppendAssistant ==
    /\ pc = "responded"
    /\ history' = Append(history, AssistantMessage(cur.content, cur.tool_calls))
    /\ log' = Append(log, AssistantMessage(cur.content, cur.tool_calls))
    /\ yielded' = IF cur.content # "" THEN Append(yielded, cur.content) ELSE yielded
    /\ IF NoToolCalls(cur.tool_calls)
       THEN /\ Finish("Done")
            /\ UNCHANGED idx
       ELSE /\ pc' = "tools"
            /\ idx' = 1
            /\ UNCHANGED <<outcome, sigint>>
    /\ UNCHANGED <<ses, hk, agent, prompt, turn, interrupted, cur, rt, modelCalls, execs,
                   prompts>>

(* "if getattr(tc, 'type', None) != 'function': continue" *)
SkipNonFunction ==
    /\ pc = "tools"
    /\ idx <= Len(cur.tool_calls)
    /\ cur.tool_calls[idx].type # "function"
    /\ idx' = NextIndex(idx)
    /\ UNCHANGED <<ses, hk, agent, prompt, pc, turn, interrupted, sigint, history, log, cur, rt,
                   outcome, modelCalls, execs, prompts, yielded>>

(* Whether the loop hands the call to run_tool (line 116) *)
ResolvesAnyString(a, tc) == tc.nameIsStr
Resolves(a, tc) == tc.nameIsStr /\ has_tool(a, tc.name)

(* A name that is no string or not a tool of the agent: an error tool message *)
AppendUnknownTool ==
    /\ pc = "tools"
    /\ idx <= Len(cur.tool_calls)
    /\ cur.tool_calls[idx].type = "function"
    /\ ~ Resolves(agent, cur.tool_calls[idx])
    /\ history' = Append(history, ToolMessage(cur.tool_calls[idx].id,
                                              UnknownTool(cur.tool_calls[idx].name)))
    /\ idx' = NextIndex(idx)
    /\ UNCHANGED <<ses, hk, agent, prompt, pc, turn, interrupted, sigint, log, cur, rt, outcome,
                   modelCalls, execs, prompts, yielded>>

(* The yolo_mode argument the loop gives run_tool: none, so the default *)
LoopYoloArgument(a) == FALSE

(* The call of run_tool that does not wait for its result *)
CallToolFireAndForget ==
    /\ pc = "tools"
    /\ idx <= Len(cur.tool_calls)
    /\ cur.tool_calls[idx].type = "function"
    /\ Resolves(agent, cur.tool_calls[idx])
    /\ rt' = CallRunTool(cur.tool_calls[idx].name, ParseArguments(cur.tool_calls[idx]),
                         TRUE, agent.skill_loader, LoopYoloArgument(agent),
                         cur.tool_calls[idx].id)
    /\ idx' = NextIndex(idx)
    /\ UNCHANGED <<ses, hk, agent, prompt, pc, turn, interrupted, sigint, history, log, cur,
                   outcome, modelCalls, execs, prompts, yielded>>

(* The arguments are parsed and run_tool is called *)
CallTool ==
    /\ pc = "tools"
    /\ idx <= Len(cur.tool_calls)
    /\ cur.tool_calls[idx].type = "function"
    /\ Resolves(agent, cur.tool_calls[idx])
    /\ rt' = CallRunTool(cur.tool_calls[idx].name, ParseArguments(cur.tool_calls[idx]),
                         TRUE, agent.skill_loader, LoopYoloArgument(agent),
                         cur.tool_calls[idx].id)
    /\ pc' = "run_tool"
    /\ UNCHANGED <<ses, hk, agent, prompt, turn, interrupted, sigint, history, log, cur, idx,
                   outcome, modelCalls, execs, prompts, yielded>>

(* The tool message written over the last message of the history *)
AppendToolResultInPlace ==
    /\ pc = "run_tool"
    /\ rt.phase = "return"
    /\ history' = [history EXCEPT ![Len(history)] = ToolMessage(rt.id, rt.result)]
    /\ log' = Append(log, ToolMessage(rt.id, rt.result))
    /\ idx' = NextIndex(idx)
    /\ rt' = IdleRt
    /\ pc' = "tools"
    /\ UNCHANGED <<ses, hk, agent, prompt, turn, interrupted, sigint, cur, outcome, modelCalls,
                   execs, prompts, yielded>>

(* run_tool has returned: the tool message is appended and logged *)
AppendToolResult ==
    /\ pc = "run_tool"
    /\ rt.phase = "return"
    /\ history' = Append(history, ToolMessage(rt.id, rt.result))
    /\ log' = Append(log, ToolMessage(rt.id, rt.result))
    /\ idx' = NextIndex(idx)
    /\ rt' = IdleRt
    /\ pc' = "tools"
    /\ UNCHANGED <<ses, hk, agent, prompt, turn, interrupted, sigint, cur, outcome, modelCalls,
                   execs, prompts, yielded>>

(* The inner for loop is over: the next turn *)
EndTurn ==
    /\ pc = "tools"
    /\ idx > Len(cur.tool_calls)
    /\ turn' = turn + 1
    /\ pc' = "turn_top"
    /\ UNCHANGED <<ses, hk, agent, prompt, interrupted, sigint, history, log, cur, idx, rt,
                   outcome, modelCalls, execs, prompts, yielded>>

----------------------------------------------------------------------------
(* Agents *)

Agent(max_turns, allowed_tools, run_hooks_flag, yolo_mode) ==
    [max_turns |-> max_turns, allowed_tools |-> allowed_tools,
     run_hooks |-> run_hooks_flag, yolo_mode |-> yolo_mode, skill_loader |-> TRUE]

(* Agent.main and Agent.fork with a list of tools *)
Agents ==
    {Agent(n, {"*"}, TRUE, y) : n \in 0..MaxTurnsBound, y \in BOOLEAN}
        \cup {Agent(n, {"list_dir", "read_file"}, FALSE, FALSE) : n \in 0..MaxTurnsBound}

NoAgent == Agent(0, {"*"}, FALSE, FALSE)

----------------------------------------------------------------------------
(* The run of the agent loop *)

Init ==
    /\ agent \in Agents
    /\ prompt \in Prompts
    /\ pc = "start"
    /\ turn = 0
    /\ interrupted = FALSE
    /\ sigint = "original"
    /\ history = <<>>
    /\ log = <<>>
    /\ cur = NoResponse
    /\ idx = 0
    /\ rt = IdleRt
    /\ outcome = "none"
    /\ modelCalls = 0
    /\ execs = <<>>
    /\ prompts = <<>>
    /\ yielded = <<>>
    /\ hk = IdleHk
    /\ ses = IdleSes

RunToolStep ==
    \/ RunToolPermission
    \/ RunToolPrompt
    \/ RunToolDispatch
    \/ RunToolHandlerEnds

LoopStep ==
    \/ Start
    \/ TurnTop
    \/ ModelResponds
    \/ ModelRaises
    \/ AppendAssistant
    \/ SkipNonFunction
    \/ AppendUnknownTool
    \/ CallTool
    \/ AppendToolResult
    \/ EndTurn

Next ==
    \/ LoopStep
    \/ RunToolStep
    \/ Sigint

Spec == Init /\ [][Next]_vars

(* The loop is one thread that runs on: each of its steps is taken when it can be *)
FairSpec == Spec /\ WF_vars(LoopStep \/ RunToolStep)

----------------------------------------------------------------------------
(* run_tool called on its own, as the tests call it *)

InitRunTool ==
    /\ agent = NoAgent
    /\ prompt = ""
    /\ pc = "direct"
    /\ turn = 0
    /\ interrupted = FALSE
    /\ sigint = "original"
    /\ history = <<>>
    /\ log = <<>>
    /\ cur = NoResponse
    /\ idx = 0
    /\ \E name \in DispatchNames \cup {"nope"}, ps \in ParamMaps,
          session \in BOOLEAN, skill_loader \in BOOLEAN, yolo_mode \in BOOLEAN :
          rt = CallRunTool(name, ps, session, skill_loader, yolo_mode, NoCall)
    /\ outcome = "none"
    /\ modelCalls = 0
    /\ execs = <<>>
    /\ prompts = <<>>
    /\ yielded = <<>>
    /\ hk = IdleHk
    /\ ses = IdleSes

SpecRunTool == InitRunTool /\ [][RunToolStep]_vars

(* Runs of the loop and calls of run_tool on its own *)
SpecBoth == (Init \/ InitRunTool) /\ [][Next]_vars

----------------------------------------------------------------------------
(* run_hooks called on its own, as the tests call it *)

InitHooks ==
    /\ agent = NoAgent
    /\ prompt = ""
    /\ pc = "hooks"
    /\ turn = 0
    /\ interrupted = FALSE
    /\ sigint = "original"
    /\ history = <<>>
    /\ log = <<>>
    /\ cur = NoResponse
    /\ idx = 0
    /\ rt = IdleRt
    /\ outcome = "none"
    /\ modelCalls = 0
    /\ execs = <<>>
    /\ prompts = <<>>
    /\ yielded = <<>>
    /\ \E config \in HookConfigs, call \in HookCalls :
          hk = CallRunHooks(config, call.event, call.tool)
    /\ ses = IdleSes

HooksStep ==
    \/ HooksEnter
    \/ HooksRunOne

SpecHooks == InitHooks /\ [][HooksStep]_vars

----------------------------------------------------------------------------
(* Session, its JSONL files and the todo list (session.py, tasks.py)        *)

(* json.dumps and json.loads of a value that is a string or None *)
JsonDumps(v) == IF v = PyNone THEN <<"null">> ELSE <<"\"", v, "\"">>
JsonLoads(text) == IF text = <<"null">> THEN PyNone ELSE text[2]

(* FileSessionLogger.log_user: the object appended as one line *)
log_user(sid, content) ==
    [timestamp |-> "<now>", role |-> JsonDumps("user"),
     content |-> JsonDumps(content), session_id |-> sid]

(* FileSessionLogger.log_assistant that writes tool_calls whatever it is *)
log_assistant_always_tool_calls(sid, content, tool_calls) ==
    [timestamp |-> "<now>", role |-> JsonDumps("assistant"),
     content |-> JsonDumps(content), session_id |-> sid,
     tool_calls |-> <<"[", tool_calls, "]">>]

(* FileSessionLogger.log_assistant: tool_calls only when truthy; <<>> stands *)
(* for None and for []                                                      *)
log_assistant(sid, content, tool_calls) ==
    IF tool_calls # <<>>
    THEN [timestamp |-> "<now>", role |-> JsonDumps("assistant"),
          content |-> JsonDumps(content), session_id |-> sid,
          tool_calls |-> <<"[", tool_calls, "]">>]
    ELSE [timestamp |-> "<now>", role |-> JsonDumps("assistant"),
          content |-> JsonDumps(content), session_id |-> sid]

(* FileSessionLogger.log_tool *)
log_tool(sid, tool_call_id, content) ==
    [timestamp |-> "<now>", role |-> JsonDumps("tool"),
     tool_call_id |-> JsonDumps(tool_call_id),
     content |-> JsonDumps(content), session_id |-> sid]

(* load_session, one line: the message without timestamp and session_id *)
LoadLine(raw) ==
    LET role == JsonLoads(raw.role)
        content == JsonLoads(raw.content)
    IN  IF "tool_calls" \in DOMAIN raw /\ "tool_call_id" \in DOMAIN raw
        THEN [role |-> role, content |-> content, tool_calls |-> raw.tool_calls[2],
              tool_call_id |-> JsonLoads(raw.tool_call_id)]
        ELSE IF "tool_calls" \in DOMAIN raw
        THEN [role |-> role, content |-> content, tool_calls |-> raw.tool_calls[2]]
        ELSE IF "tool_call_id" \in DOMAIN raw
        THEN [role |-> role, content |-> content,
              tool_call_id |-> JsonLoads(raw.tool_call_id)]
        ELSE [role |-> role, content |-> content]

(* load_session: the lines of the file in order; no file gives [] *)
load_session(lines) == [i \in 1..Len(lines) |-> LoadLine(lines[i])]

(* The lines the session logger writes for the messages, in order; a message *)
(* of another role (system) is written by no method of the logger           *)
LogLines(sid, msgs) ==
    LET Logged == SelectSeq(msgs, LAMBDA m : m.role \in {"user", "assistant", "tool"})
    IN  [i \in 1..Len(Logged) |->
            LET m == Logged[i]
            IN  CASE m.role = "user" -> log_user(sid, m.content)
                  [] m.role = "assistant" ->
                        log_assistant(sid, m.content,
                                      IF "tool_calls" \in DOMAIN m THEN m.tool_calls ELSE <<>>)
                  [] OTHER -> log_tool(sid, m.tool_call_id, m.content)]

(* Messages the loop appends to the history and logs *)
LoopMessages ==
    {UserMessage("u"), AssistantMessage(PyNone, <<[id |-> "x"]>>),
     AssistantMessage("a", <<>>), ToolMessage("x", "t")}

(* The loop appends a message to the history and logs it *)
AppendAndLog(msg) ==
    /\ pc = "session"
    /\ ses.steps < MaxSessionSteps
    /\ history' = Append(history, msg)
    /\ ses' = [ses EXCEPT !.files[ses.session_id] = @ \o LogLines(ses.session_id, <<msg>>),
                          !.raised = "none", !.steps = @ + 1]
    /\ UNCHANGED <<agent, prompt, pc, turn, interrupted, sigint, log, cur, idx, rt,
                   outcome, modelCalls, execs, prompts, yielded, hk>>

(* Session(sid): the session resumed from the file of a known id *)
SessionResume(sid) ==
    /\ pc = "session"
    /\ ses.steps < MaxSessionSteps
    /\ sid \in 1..ses.ids
    /\ history' = load_session(ses.files[sid])
    /\ ses' = [IdleSes EXCEPT !.session_id = sid, !.ids = ses.ids, !.files = ses.files,
                              !.plans = ses.plans, !.steps = ses.steps + 1]
    /\ UNCHANGED <<agent, prompt, pc, turn, interrupted, sigint, log, cur, idx, rt,
                   outcome, modelCalls, execs, prompts, yielded, hk>>

(* Session.clear *)
SessionClear ==
    /\ pc = "session"
    /\ ses.steps < MaxSessionSteps
    /\ history' = <<>>
    /\ ses' = [ses EXCEPT !.todos = <<>>, !.session_id = ses.ids + 1,
                          !.ids = ses.ids + 1, !.plan_mode = FALSE, !.raised = "none",
                          !.steps = @ + 1]
    /\ UNCHANGED <<agent, prompt, pc, turn, interrupted, sigint, log, cur, idx, rt,
                   outcome, modelCalls, execs, prompts, yielded, hk>>

(* Session.renew that logs nothing to the new session *)
RenewLinesNone(sid, msgs) == <<>>

(* Session.renew: the lines written to the new session's file *)
RenewLines(sid, msgs) == LogLines(sid, msgs)

(* Session.renew *)
SessionRenew ==
    /\ pc = "session"
    /\ ses.steps < MaxSessionSteps
    /\ ses' = [ses EXCEPT !.session_id = ses.ids + 1, !.ids = ses.ids + 1,
                          !.todos = <<>>, !.plan_mode = FALSE, !.raised = "none",
                          !.steps = @ + 1,
                          !.files[ses.ids + 1] = @ \o RenewLines(ses.ids + 1, history)]
    /\ UNCHANGED <<agent, prompt, pc, turn, interrupted, sigint, history, log, cur, idx,
                   rt, outcome, modelCalls, execs, prompts, yielded, hk>>



----------------------------------------------------------------------------
(* Session modes: PlanMode (modes/plan.py), Session.enter_mode and          *)
(* Session.exit_mode, and the commands /plan, /done and /implement          *)
(* (commands.py)                                                            *)

(* PlanMode.enter: settings.PLAN_DIR / _generate_plan_filename() *)
PlanFile(n) == "plans/plan-" \o ToString(n) \o ".md"

(* PlanMode.exit: the plan file read if it exists, and the follow-up message *)
(* when it has content                                                      *)
PlanModeExit(plan_file, content) ==
    [artifact_path |-> plan_file, artifact_content |-> content,
     followup_system_message |->
        IF plan_file # PyNone /\ content \notin {PyNone, ""}
        THEN "FOLLOW THE PLAN stored in: " \o plan_file
        ELSE PyNone]

(* Session.enter_mode(PlanMode()): RuntimeError when a mode is active *)
enter_mode(session) ==
    IF session.mode # PyNone
    THEN [session EXCEPT !.raised = "RuntimeError"]
    ELSE [session EXCEPT !.mode = "plan", !.plan_file = PlanFile(session.plans + 1),
                         !.plans = @ + 1, !.plan_content = PyNone, !.raised = "none"]

(* Session.exit_mode of a session with an active mode *)
exit_mode(session) ==
    LET result == PlanModeExit(session.plan_file, session.plan_content)
    IN  [session EXCEPT !.mode = PyNone, !.plan_file = PyNone, !.plan_content = PyNone,
                        !.last_mode_exit = result, !.returned = result,
                        !.raised = "none"]

(* _cmd_plan without the check of session.mode *)
cmd_plan_unguarded(session) == enter_mode(session)

(* _cmd_plan *)
cmd_plan(session) ==
    IF session.mode # PyNone
    THEN [session EXCEPT !.printed = "Already in plan mode. Exit with /done",
                         !.raised = "none"]
    ELSE [enter_mode(session) EXCEPT !.printed = "Plan mode entered."]

(* _cmd_done that leaves the history as it is *)
cmd_done_keeps_history(session, hist, implement, confirm) ==
    [ses |-> IF session.mode = PyNone THEN session ELSE exit_mode(session),
     history |-> hist]

(* _cmd_done, and _cmd_implement with the answer to its Confirm.ask *)
cmd_done(session, hist, implement, confirm) ==
    IF session.mode = PyNone
    THEN [ses |-> [session EXCEPT !.printed = "Not in plan mode.", !.raised = "none"],
          history |-> hist]
    ELSE LET left == exit_mode(session)
             followup == left.returned.followup_system_message
         IN  [ses |-> [left EXCEPT
                          !.session_id = session.ids + 1, !.ids = session.ids + 1,
                          !.start_implementation =
                              IF implement /\ followup # PyNone /\ confirm THEN TRUE ELSE @,
                          !.printed = IF followup # PyNone
                                      THEN "History cleared. Follow the plan"
                                      ELSE "History cleared. No plan file found"],
              history |-> IF followup # PyNone
                          THEN <<[role |-> "system", content |-> followup]>>
                          ELSE <<>>]

SessionEnterMode ==
    /\ pc = "session"
    /\ ses.steps < MaxSessionSteps
    /\ ses' = [enter_mode(ses) EXCEPT !.steps = @ + 1]
    /\ UNCHANGED <<agent, prompt, pc, turn, interrupted, sigint, history, log, cur, idx,
                   rt, outcome, modelCalls, execs, prompts, yielded, hk>>

SessionExitMode ==
    /\ pc = "session"
    /\ ses.steps < MaxSessionSteps
    /\ ses.mode # PyNone
    /\ ses' = [exit_mode(ses) EXCEPT !.steps = @ + 1]
    /\ UNCHANGED <<agent, prompt, pc, turn, interrupted, sigint, history, log, cur, idx,
                   rt, outcome, modelCalls, execs, prompts, yielded, hk>>

(* The plan is written to the plan file of the active mode *)
PlanFileWrite ==
    /\ pc = "session"
    /\ ses.steps < MaxSessionSteps
    /\ ses.mode # PyNone
    /\ \E content \in {"", "# Plan"} :
          ses' = [ses EXCEPT !.plan_content = content, !.steps = @ + 1]
    /\ UNCHANGED <<agent, prompt, pc, turn, interrupted, sigint, history, log, cur, idx,
                   rt, outcome, modelCalls, execs, prompts, yielded, hk>>

CmdPlan ==
    /\ pc = "session"
    /\ ses.steps < MaxSessionSteps
    /\ ses' = [cmd_plan(ses) EXCEPT !.steps = @ + 1]
    /\ UNCHANGED <<agent, prompt, pc, turn, interrupted, sigint, history, log, cur, idx,
                   rt, outcome, modelCalls, execs, prompts, yielded, hk>>

CmdDone ==
    /\ pc = "session"
    /\ ses.steps < MaxSessionSteps
    /\ LET r == cmd_done(ses, history, FALSE, FALSE)
       IN  /\ ses' = [r.ses EXCEPT !.steps = @ + 1]
           /\ history' = r.history
    /\ UNCHANGED <<agent, prompt, pc, turn, interrupted, sigint, log, cur, idx, rt,
                   outcome, modelCalls, execs, prompts, yielded, hk>>

CmdImplement ==
    /\ pc = "session"
    /\ ses.steps < MaxSessionSteps
    /\ \E confirm \in BOOLEAN :
          LET r == cmd_done(ses, history, TRUE, confirm)
          IN  /\ ses' = [r.ses EXCEPT !.steps = @ + 1]
              /\ history' = r.history
    /\ UNCHANGED <<agent, prompt, pc, turn, interrupted, sigint, log, cur, idx, rt,
                   outcome, modelCalls, execs, prompts, yielded, hk>>

(* Session.enter_plan_mode *)
SessionEnterPlanMode ==
    /\ pc = "session"
    /\ ses.steps < MaxSessionSteps
    /\ ses' = [ses EXCEPT !.plan_mode = TRUE, !.raised = "none", !.steps = @ + 1]
    /\ UNCHANGED <<agent, prompt, pc, turn, interrupted, sigint, history, log, cur, idx,
                   rt, outcome, modelCalls, execs, prompts, yielded, hk>>

----------------------------------------------------------------------------
(* The todo list: TaskManager.update (tasks.py)                             *)

MAX_TASKS == 20

(* str.strip and str.lower on the strings of the checked items *)
Strip(str) ==
    CASE str = " a " -> "a"
      [] str = " doing a " -> "doing a"
      [] str = "  " -> ""
      [] OTHER -> str
Lower(str) ==
    CASE str = "PENDING" -> "pending"
      [] str = "In_Progress" -> "in_progress"
      [] OTHER -> str

(* An item as the caller sends it; PyNone stands for a key that is absent *)
TodoItem(content, status, activeForm) ==
    [content |-> content, status |-> status, activeForm |-> activeForm]

(* item.get(key, default), stripped or lowered as update does *)
ItemContent(item) == Strip(IF item.content = PyNone THEN "" ELSE item.content)
ItemStatus(item) == Lower(IF item.status = PyNone THEN "pending" ELSE item.status)
ItemActiveForm(item) == Strip(IF item.activeForm = PyNone THEN "" ELSE item.activeForm)

(* The first check of update an item fails, in the order of the code *)
ItemError(item) ==
    IF ItemContent(item) = "" THEN "content required"
    ELSE IF ItemStatus(item) \notin {"pending", "in_progress", "completed"}
    THEN "invalid status"
    ELSE IF ItemActiveForm(item) = "" THEN "activeForm required"
    ELSE "none"

Validated(items) ==
    [i \in 1..Len(items) |->
        TodoItem(ItemContent(items[i]), ItemStatus(items[i]), ItemActiveForm(items[i]))]

InProgressCount(items) ==
    Cardinality({i \in 1..Len(items) : ItemStatus(items[i]) = "in_progress"})

(* update without the check of the number of in_progress items *)
update_any_in_progress(todos, items) ==
    IF \E i \in 1..Len(items) : ItemError(items[i]) # "none"
    THEN [items |-> todos,
          raised |-> ItemError(items[CHOOSE i \in 1..Len(items) :
                                  /\ ItemError(items[i]) # "none"
                                  /\ \A j \in 1..(i - 1) : ItemError(items[j]) = "none"])]
    ELSE IF Len(items) > MAX_TASKS
    THEN [items |-> todos, raised |-> "Max 20 tasks allowed"]
    ELSE [items |-> Validated(items), raised |-> "none"]

(* update that assigns self.items before it enforces the two limits *)
update_stores_before_limits(todos, items) ==
    IF \E i \in 1..Len(items) : ItemError(items[i]) # "none"
    THEN [items |-> todos,
          raised |-> ItemError(items[CHOOSE i \in 1..Len(items) :
                                  /\ ItemError(items[i]) # "none"
                                  /\ \A j \in 1..(i - 1) : ItemError(items[j]) = "none"])]
    ELSE IF Len(items) > MAX_TASKS
    THEN [items |-> Validated(items), raised |-> "Max 20 tasks allowed"]
    ELSE IF InProgressCount(items) > 1
    THEN [items |-> Validated(items),
          raised |-> "Only one task can be in_progress at a time"]
    ELSE [items |-> Validated(items), raised |-> "none"]

(* TaskManager.update: the stored list and the ValueError raised, if any *)
update(todos, items) ==
    IF \E i \in 1..Len(items) : ItemError(items[i]) # "none"
    THEN [items |-> todos,
          raised |-> ItemError(items[CHOOSE i \in 1..Len(items) :
                                  /\ ItemError(items[i]) # "none"
                                  /\ \A j \in 1..(i - 1) : ItemError(items[j]) = "none"])]
    ELSE IF Len(items) > MAX_TASKS
    THEN [items |-> todos, raised |-> "Max 20 tasks allowed"]
    ELSE IF InProgressCount(items) > 1
    THEN [items |-> todos, raised |-> "Only one task can be in_progress at a time"]
    ELSE [items |-> Validated(items), raised |-> "none"]

(* The items the lists sent to update are made of *)
TodoItems ==
    {TodoItem("a", "pending", "doing a"), TodoItem("b", "completed", "doing b"),
     TodoItem("c", "in_progress", "doing c"), TodoItem(" a ", "In_Progress", " doing a "),
     TodoItem("a", PyNone, "doing a"), TodoItem("  ", "pending", "doing a"),
     TodoItem(PyNone, "pending", "doing a"), TodoItem("a", "nope", "doing a"),
     TodoItem("a", "PENDING", PyNone)}

(* Lists around the limit of MAX_TASKS items *)
LongTodoLists ==
    {[i \in 1..n |-> IF i = n THEN last ELSE TodoItem("a", "pending", "doing a")] :
        n \in {MAX_TASKS, MAX_TASKS + 1}, last \in TodoItems}

TodoInputs ==
    UNION {[1..n -> TodoItems] : n \in 0..MaxTodoLen} \cup LongTodoLists

(* session.todos.update(items), directly or through _manage_todos, which    *)
(* turns the ValueError into an "Error: ..." result                         *)
TodosUpdateWith(items) ==
    /\ pc = "todos"
    /\ LET r == update(ses.todos, items)
       IN  ses' = [ses EXCEPT !.todos = r.items, !.raised = r.raised]
    /\ UNCHANGED <<agent, prompt, pc, turn, interrupted, sigint, history, log, cur, idx,
                   rt, outcome, modelCalls, execs, prompts, yielded, hk>>

TodosUpdate == \E items \in TodoInputs : TodosUpdateWith(items)

(* TaskManager.clear *)
TodosClear ==
    /\ pc = "todos"
    /\ ses' = [ses EXCEPT !.todos = <<>>, !.raised = "none"]
    /\ UNCHANGED <<agent, prompt, pc, turn, interrupted, sigint, history, log, cur, idx,
                   rt, outcome, modelCalls, execs, prompts, yielded, hk>>

----------------------------------------------------------------------------
(* A session used on its own: messages appended and logged, the session     *)
(* resumed, cleared and renewed, modes entered and left                     *)

InitSession ==
    /\ agent = NoAgent
    /\ prompt = ""
    /\ pc = "session"
    /\ turn = 0
    /\ interrupted = FALSE
    /\ sigint = "original"
    /\ history = <<>>
    /\ log = <<>>
    /\ cur = NoResponse
    /\ idx = 0
    /\ rt = IdleRt
    /\ outcome = "none"
    /\ modelCalls = 0
    /\ execs = <<>>
    /\ prompts = <<>>
    /\ yielded = <<>>
    /\ hk = IdleHk
    /\ \E todos \in {<<>>, <<TodoItem("a", "pending", "doing a")>>} :
          ses = [IdleSes EXCEPT !.todos = todos]

SessionStep ==
    \/ \E msg \in LoopMessages : AppendAndLog(msg)
    \/ \E sid \in 1..(MaxSessionSteps + 1) : SessionResume(sid)
    \/ SessionClear
    \/ SessionRenew
    \/ SessionEnterPlanMode
    \/ SessionEnterMode
    \/ SessionExitMode
    \/ PlanFileWrite
    \/ CmdPlan
    \/ CmdDone
    \/ CmdImplement

SpecSession == InitSession /\ [][SessionStep]_vars

(* The todo list used on its own *)
InitTodos ==
    /\ agent = NoAgent
    /\ prompt = ""
    /\ pc = "todos"
    /\ turn = 0
    /\ interrupted = FALSE
    /\ sigint = "original"
    /\ history = <<>>
    /\ log = <<>>
    /\ cur = NoResponse
    /\ idx = 0
    /\ rt = IdleRt
    /\ outcome = "none"
    /\ modelCalls = 0
    /\ execs = <<>>
    /\ prompts = <<>>
    /\ yielded = <<>>
    /\ hk = IdleHk
    /\ ses = IdleSes

TodosStep ==
    \/ TodosUpdate
    \/ TodosClear

SpecTodos == InitTodos /\ [][TodosStep]_vars

----------------------------------------------------------------------------
(* Vocabulary of the properties *)

InLoop == pc \notin {"direct", "hooks", "session", "todos", "modes"}

Ended == InLoop /\ pc = "done"

HasToolCalls(m) == "tool_calls" \in DOMAIN m

AssistantIndexes == {i \in 1..Len(history) : history[i].role = "assistant"}

(* Every response of the model in this run asked for at least one tool call *)
EveryResponseRequestsTools ==
    /\ \A i \in AssistantIndexes : HasToolCalls(history[i])
    /\ outcome # "Error"

(* Every response of the model in this run asked for exactly one tool call *)
EveryResponseRequestsOneTool ==
    /\ \A i \in AssistantIndexes :
          HasToolCalls(history[i]) /\ Len(history[i].tool_calls) = 1
    /\ outcome # "Error"

BudgetExhaustedRun ==
    /\ Ended
    /\ ~ IsBlank(prompt)
    /\ EveryResponseRequestsTools

----------------------------------------------------------------------------
(* C1: with max_turns = N and a model that requests at least one tool call  *)
(* in every response, a run makes exactly N model calls and then raises     *)
(* MaxStepsExceededError; it never returns normally and never makes an      *)
(* (N+1)-th model call.                                                     *)
(* As stated (C1_AlwaysExactlyNThenMaxTurns) it fails: a SIGINT seen at the *)
(* top of a turn ends the run with AgentInterrupted after fewer calls.      *)
(* Amended (C1_ExactlyNUnlessInterrupted): a run that is not interrupted    *)
(* makes exactly N calls and raises MaxStepsExceededError; an interrupted   *)
(* run raises MaxStepsExceededError after N calls or AgentInterrupted after *)
(* fewer; no run of this kind returns normally or makes more than N calls.  *)

C1_AlwaysExactlyNThenMaxTurns ==
    BudgetExhaustedRun =>
        /\ outcome = "MaxTurnsExceeded"
        /\ modelCalls = agent.max_turns

C1_ExactlyNUnlessInterrupted ==
    /\ InLoop => modelCalls <= agent.max_turns
    /\ BudgetExhaustedRun =>
          /\ outcome \in {"MaxTurnsExceeded", "Interrupted"}
          /\ outcome = "MaxTurnsExceeded" => modelCalls = agent.max_turns
          /\ outcome = "Interrupted" => interrupted /\ modelCalls < agent.max_turns
          /\ ~ interrupted => outcome = "MaxTurnsExceeded"

C1_Witness ==
    /\ BudgetExhaustedRun
    /\ ~ interrupted
    /\ outcome = "MaxTurnsExceeded"
    /\ agent.max_turns = MaxTurnsBound
    /\ modelCalls = MaxTurnsBound

----------------------------------------------------------------------------
(* C2: a pre_tool_use hook that returns blocked for a tool call prevents    *)
(* the handler of that call from running (for an agent that runs hooks).    *)
(* The loop never dispatches pre_tool_use, so the handler runs.             *)

C2_BlockedHookPreventsHandler ==
    (InLoop /\ agent.run_hooks) =>
        \A i \in 1..Len(execs) : ~ PreToolUseBlocked(HooksFile, execs[i].tool)

----------------------------------------------------------------------------
(* C3: run_tool never lets an exception escape, for any tool name and       *)
(* parameter map, with yolo mode on or off: once it has ended, its outcome  *)
(* is a normal handler result, the cancellation sentinel or an error string *)

RunToolPhases == {"idle", "enter", "prompt", "dispatch", "running", "return"}

C3_RunToolNeverRaises ==
    /\ rt.phase \in RunToolPhases
    /\ rt.phase = "return" =>
          /\ rt.kind \in {"normal", "cancelled", "error"}
          /\ rt.result # <<>>
          /\ rt.kind = "cancelled" <=> rt.result = Cancelled(rt.tool)
          /\ rt.kind = "normal" <=> rt.result = HandlerOutput(rt.tool)
          /\ rt.kind = "normal" => rt.ran

C3_Witness ==
    /\ rt.phase = "return"
    /\ rt.kind = "error"
    /\ rt.ran
    /\ rt.result = ExceptionText(rt.tool)
    /\ rt.yolo

----------------------------------------------------------------------------
(* C4: with yolo mode off, for a call whose policy requires permission, the *)
(* handler runs only if the user confirmed the prompt of that call; on a    *)
(* decline or an aborted prompt run_tool returns the cancellation sentinel  *)
(* and the handler does not run.                                            *)

C4_HandlerOnlyAfterConfirmation ==
    (rt.phase # "idle" /\ NeedsPrompt(rt)) =>
        /\ rt.ran => (rt.prompted /\ rt.answer = "y")
        /\ rt.phase \in {"dispatch", "running"} => (rt.prompted /\ rt.answer = "y")
        /\ (rt.prompted /\ rt.answer \in {"n", "abort"}) =>
              /\ rt.phase = "return"
              /\ rt.result = Cancelled(rt.tool)
              /\ ~ rt.ran
        /\ rt.phase = "return" => rt.prompted

C4_Witness ==
    /\ NeedsPrompt(rt)
    /\ rt.tool = "fetch"
    /\ rt.phase = "return"
    /\ rt.answer = "abort"
    /\ rt.result = Cancelled("fetch")
    /\ ~ rt.ran

----------------------------------------------------------------------------
(* C5: for an agent created with yolo mode on, no tool call executed by the *)
(* loop blocks on a confirmation prompt.                                    *)
(* The loop calls run_tool without the agent's yolo_mode, so it prompts.    *)

C5_YoloAgentNeverPrompts ==
    (InLoop /\ agent.yolo_mode) => (prompts = <<>> /\ rt.phase # "prompt")

----------------------------------------------------------------------------
(* The tool calls of the responses in the history, and how far the loop is *)

AllCalls ==
    UNION {SeqToSet(history[i].tool_calls) :
             i \in {j \in AssistantIndexes : HasToolCalls(history[j])}}

(* The inner for loop is past the call *)
IsProcessed(tc) ==
    \/ tc.id.t < turn
    \/ tc.id.t = turn /\ pc \in {"tools", "run_tool"} /\ tc.id.i < idx

ToolMessagesFor(id) ==
    {k \in 1..Len(history) : history[k].role = "tool" /\ history[k].tool_call_id = id}

ExecIds == {execs[i].id : i \in 1..Len(execs)}
PromptIds == {prompts[i].id : i \in 1..Len(prompts)}

----------------------------------------------------------------------------
(* C6: a tool name outside the agent's allowlist never reaches a handler:   *)
(* for every such call (or one whose name is no string) the loop appends    *)
(* 'Unknown tool: <name>' for the call id, does not call run_tool and goes  *)
(* on with the other calls; run_tool, given a name with no dispatch entry,  *)
(* returns a string containing 'Unknown tool' and runs no handler.          *)
(* As stated (C6_UnknownToolAlwaysReported) it fails: with yolo mode off    *)
(* run_tool prompts first and a decline returns the cancellation sentinel;  *)
(* and a call whose type is not 'function' is skipped without a message.    *)
(* Amended (C6_UnknownToolNeverReachesHandler): no handler runs in either   *)
(* case; the loop appends the message for calls of type 'function'; and     *)
(* run_tool returns 'Error: Unknown tool: <name>' when yolo mode is on or   *)
(* the user confirms, the cancellation sentinel when the user declines.     *)

C6_UnknownToolAlwaysReported ==
    /\ InLoop =>
          \A tc \in AllCalls :
              (IsProcessed(tc) /\ ~ (tc.nameIsStr /\ tc.name \in tool_names(agent))) =>
                  /\ \E k \in ToolMessagesFor(tc.id) :
                        history[k].content = UnknownTool(tc.name)
                  /\ tc.id \notin ExecIds \cup PromptIds
    /\ (rt.phase = "return" /\ rt.tool \notin DispatchNames) =>
          /\ Contains(rt.result, "Unknown tool: ")
          /\ ~ rt.ran

C6_UnknownToolNeverReachesHandler ==
    /\ InLoop =>
          /\ \A tc \in AllCalls :
                (IsProcessed(tc) /\ ~ (tc.nameIsStr /\ tc.name \in tool_names(agent))) =>
                    /\ tc.id \notin ExecIds \cup PromptIds
                    /\ tc.type = "function" =>
                          /\ Cardinality(ToolMessagesFor(tc.id)) = 1
                          /\ \A k \in ToolMessagesFor(tc.id) :
                                history[k].content = UnknownTool(tc.name)
                    /\ tc.type # "function" => ToolMessagesFor(tc.id) = {}
          /\ \A i \in 1..Len(execs) : execs[i].tool \in tool_names(agent)
    /\ rt.tool \notin DispatchNames =>
          /\ ~ rt.ran
          /\ rt.phase # "running"
          /\ rt.phase = "return" =>
                IF rt.yolo \/ (rt.prompted /\ rt.answer = "y")
                THEN /\ rt.result = UnknownToolError(rt.tool)
                     /\ Contains(rt.result, "Unknown tool: ")
                ELSE /\ rt.prompted
                     /\ rt.result = Cancelled(rt.tool)

(* An unknown call was answered and the next call of the turn ran its handler *)
C6_Witness ==
    /\ InLoop
    /\ \E k \in ToolMessagesFor([t |-> 0, i |-> 1]) :
          history[k].content = UnknownTool("nope")
    /\ [t |-> 0, i |-> 2] \in ExecIds

----------------------------------------------------------------------------
(* C7: if SIGINT arrives at any point during a run, the in-flight model     *)
(* call or tool execution finishes and the run then ends by raising         *)
(* AgentInterrupted.                                                        *)
(* As stated (C7_SigintAlwaysEndsInterrupted) it fails: a SIGINT during the *)
(* last turn (a response without tool calls, or turn N) is never looked at. *)
(* Amended (C7_InterruptedAtNextTurnTop): the in-flight model call or tool  *)
(* execution finishes; the run raises AgentInterrupted when it reaches the  *)
(* top of another turn within the budget; a run whose flag was set ends     *)
(* Interrupted, Done after a response without tool calls, or                *)
(* MaxTurnsExceeded with the budget used up.                                *)

LastIsFinalAnswer ==
    /\ history # <<>>
    /\ history[Len(history)].role = "assistant"
    /\ ~ HasToolCalls(history[Len(history)])

----------------------------------------------------------------------------
(* C8: the interrupt flag is consulted only at the top of a turn: once a    *)
(* turn has started, its model call, the append of the assistant message    *)
(* and every tool call of the turn complete, with their results in the      *)
(* history, even if SIGINT arrived; AgentInterrupted is raised only right   *)
(* before a model call, never between two tool calls of a turn.             *)

(* Every call of type 'function' the loop is past has its one tool message *)
ProcessedCallsAnswered ==
    \A tc \in AllCalls :
        (IsProcessed(tc) /\ tc.type = "function") =>
            Cardinality(ToolMessagesFor(tc.id)) = 1

AtTurnBoundary == InLoop /\ pc \in {"turn_top", "done"} /\ outcome # "Error"

C8_InterruptOnlyAtTurnTop ==
    /\ [][(outcome' = "Interrupted") => (pc = "turn_top" \/ outcome = "Interrupted")]_vars
    /\ [][(pc \in {"model_call", "responded", "tools", "run_tool"})
            => (outcome' \in {"none", "Done", "Error"})]_vars
    /\ [](AtTurnBoundary =>
            /\ \A tc \in AllCalls : IsProcessed(tc)
            /\ ProcessedCallsAnswered
            /\ Cardinality(AssistantIndexes) = modelCalls)

(* Interrupted with the flag set during a turn whose two tool calls completed *)
C8_Witness ==
    /\ Ended
    /\ outcome = "Interrupted"
    /\ ToolMessagesFor([t |-> 0, i |-> 1]) # {}
    /\ ToolMessagesFor([t |-> 0, i |-> 2]) # {}

----------------------------------------------------------------------------
(* C9: with max_turns = N and a model that always requests a tool call, a   *)
(* run performs at most N handler invocations before MaxTurnsExceeded.      *)
(* As stated (C9_AtMostNExecutions) it fails: a response may hold several   *)
(* tool calls and each of them runs.                                        *)
(* Amended (C9_AtMostOneExecutionPerCall): each requested tool call runs    *)
(* its handler at most once, so a run performs at most as many handler      *)
(* invocations as the responses hold tool calls (at most N responses), and  *)
(* at most N when every response holds exactly one tool call.               *)

AllResponsesHoldOneCall ==
    \A i \in AssistantIndexes :
        HasToolCalls(history[i]) /\ Len(history[i].tool_calls) = 1

C9_AtMostNExecutions ==
    (BudgetExhaustedRun /\ outcome = "MaxTurnsExceeded") =>
        Len(execs) <= agent.max_turns

C9_AtMostOneExecutionPerCall ==
    InLoop =>
        /\ Cardinality(ExecIds) = Len(execs)
        /\ ExecIds \subseteq {tc.id : tc \in AllCalls}
        /\ Cardinality(AssistantIndexes) <= agent.max_turns
        /\ Len(execs) <= agent.max_turns * MaxCalls
        /\ AllResponsesHoldOneCall => Len(execs) <= agent.max_turns

C9_Witness ==
    /\ BudgetExhaustedRun
    /\ outcome = "MaxTurnsExceeded"
    /\ AllResponsesHoldOneCall
    /\ agent.max_turns = MaxTurnsBound
    /\ Len(execs) = MaxTurnsBound

----------------------------------------------------------------------------
(* C10: every run with a finite max_turns in which each model call and tool *)
(* execution returns ends in exactly one of three outcomes: Done (normal    *)
(* return after a response with no tool calls; a blank prompt returns at    *)
(* once), Interrupted or MaxTurnsExceeded; the number of model calls never  *)
(* exceeds max_turns.  (A model call that raises ends the run with that     *)
(* exception: outcome "Error".)                                             *)

----------------------------------------------------------------------------
(* C11: within one turn, tool calls run one at a time in the order the      *)
(* model listed them: the handler of call i+1 starts only after the result  *)
(* of call i was appended to the history, and the tool messages are in the  *)
(* history in the order of the tool_calls of the assistant message.         *)

IdLess(a, b) == a.t < b.t \/ (a.t = b.t /\ a.i < b.i)

ToolMessageIndexes == {k \in 1..Len(history) : history[k].role = "tool"}

(* The assistant message that holds the call *)
AssistantIndexOf(id) ==
    {j \in AssistantIndexes :
        HasToolCalls(history[j]) /\ \E n \in 1..Len(history[j].tool_calls) :
                                        history[j].tool_calls[n].id = id}

C11_ToolCallsRunInOrder ==
    InLoop =>
        /\ \A a, b \in 1..Len(execs) : a < b => IdLess(execs[a].id, execs[b].id)
        /\ \A k1, k2 \in ToolMessageIndexes :
              k1 < k2 => IdLess(history[k1].tool_call_id, history[k2].tool_call_id)
        /\ \A k \in ToolMessageIndexes :
              \E j \in AssistantIndexOf(history[k].tool_call_id) : j < k
        /\ \A n \in 1..Len(execs) : \A tc \in AllCalls :
              (tc.id.t = execs[n].id.t /\ tc.id.i < execs[n].id.i
                 /\ tc.type = "function") => ToolMessagesFor(tc.id) # {}
        /\ rt.phase # "idle" =>
              (pc = "run_tool" /\ rt.id = cur.tool_calls[idx].id)

(* Two handlers ran in one turn and both results are in the history *)
C11_Witness ==
    /\ InLoop
    /\ Len(execs) = 2
    /\ execs[1].id = [t |-> 0, i |-> 1]
    /\ execs[2].id = [t |-> 0, i |-> 2]
    /\ ToolMessagesFor([t |-> 0, i |-> 1]) # {}
    /\ ToolMessagesFor([t |-> 0, i |-> 2]) # {}

----------------------------------------------------------------------------
(* C12: for a tool call whose arguments string is not valid JSON, or is     *)
(* JSON that is no object, the loop gives run_tool an empty object, still   *)
(* runs the tool through run_tool, appends its result for the call id and   *)
(* goes on without raising.                                                 *)

BadArguments(tc) == tc.args # "object"

C12_MalformedArgumentsGiveEmptyObject ==
    /\ [](pc = "run_tool" =>
            /\ rt.tool = cur.tool_calls[idx].name
            /\ BadArguments(cur.tool_calls[idx]) => rt.params = EmptyParams)
    /\ [](InLoop =>
            \A tc \in AllCalls :
                (IsProcessed(tc) /\ BadArguments(tc) /\ tc.type = "function"
                   /\ tc.nameIsStr /\ tc.name \in tool_names(agent)) =>
                    Cardinality(ToolMessagesFor(tc.id)) = 1)
    /\ [][(pc = "tools" /\ idx <= Len(cur.tool_calls)
              /\ cur.tool_calls[idx].type = "function"
              /\ Resolves(agent, cur.tool_calls[idx])
              /\ BadArguments(cur.tool_calls[idx]))
            => (/\ outcome' = "none"
                /\ idx' = idx
                /\ pc' \in {"tools", "run_tool"}
                /\ pc' = "run_tool" =>
                      (rt'.phase = "enter" /\ rt'.params = EmptyParams))]_vars
    /\ [][(pc = "run_tool" /\ BadArguments(cur.tool_calls[idx]))
            => (outcome' = "none" /\ pc' \in {"run_tool", "tools"})]_vars

(* list_dir with arguments that are no JSON ran and its result is appended *)
C12_Witness ==
    /\ InLoop
    /\ pc = "tools"
    /\ idx = 2
    /\ cur.tool_calls[1].args = "nonobject"
    /\ [t |-> turn, i |-> 1] \in ExecIds
    /\ \E k \in ToolMessagesFor([t |-> turn, i |-> 1]) :
          history[k].content = HandlerOutput("list_dir")

----------------------------------------------------------------------------
(* C13: with yolo mode off, a tool name without an entry in the policy      *)
(* table is treated as requiring permission: run_tool prompts with no       *)
(* detail before anything else and, on a decline, returns the cancellation  *)
(* sentinel without reaching the dispatch.                                  *)

UnregisteredCall(r) == r.phase # "idle" /\ r.tool \notin PolicyNames /\ ~ r.yolo

NoDetail == <<"(no details available)">>

C13_UnregisteredToolFailsClosed ==
    /\ [](UnregisteredCall(rt) =>
            /\ rt.phase \in {"dispatch", "running", "return"} =>
                  /\ rt.prompted
                  /\ prompts # <<>>
                  /\ prompts[Len(prompts)].tool = rt.tool
                  /\ prompts[Len(prompts)].detail = NoDetail
            /\ rt.phase \in {"dispatch", "running"} => rt.answer = "y"
            /\ rt.answer \in {"n", "abort"} =>
                  /\ rt.phase = "return"
                  /\ rt.result = Cancelled(rt.tool)
                  /\ ~ rt.ran)
    /\ [][(UnregisteredCall(rt) /\ rt.phase = "enter" /\ rt' # rt)
            => (rt'.phase = "prompt" /\ execs' = execs)]_vars
    /\ [][(UnregisteredCall(rt) /\ rt.phase = "prompt" /\ rt' # rt /\ rt'.answer # "y")
            => (/\ rt'.phase = "return"
                /\ rt'.result = Cancelled(rt.tool)
                /\ execs' = execs)]_vars

C13_Witness ==
    /\ UnregisteredCall(rt)
    /\ rt.tool = "nope"
    /\ rt.phase = "return"
    /\ rt.answer = "n"
    /\ Len(prompts) = 1
    /\ prompts[1].detail = NoDetail
    /\ rt.result = Cancelled("nope")

----------------------------------------------------------------------------
(* C14: with yolo mode off, run_tool for a tool whose policy is             *)
(* NeverRequire (list_dir, manage_todos, run_task, ask_user_question,       *)
(* load_skill) never calls the confirmation prompt, for any parameter map.  *)

NeverRequireTools ==
    {"list_dir", "manage_todos", "run_task", "ask_user_question", "load_skill"}

C14_NeverRequireNeverPrompts ==
    /\ NeverRequireTools =
          {n \in PolicyNames : PERMISSION_REQUIRED(n).variant = "NeverRequire"}
    /\ (rt.phase # "idle" /\ ~ rt.yolo /\ rt.tool \in NeverRequireTools) =>
          /\ rt.phase # "prompt"
          /\ ~ rt.prompted
          /\ \A n \in 1..Len(prompts) : prompts[n].id # rt.id

(* list_dir of a path outside the allowed directories ran without a prompt *)
C14_Witness ==
    /\ ~ rt.yolo
    /\ rt.tool = "list_dir"
    /\ rt.params.path = OutsidePath
    /\ rt.phase = "return"
    /\ rt.ran
    /\ ~ rt.prompted

----------------------------------------------------------------------------
(* C15: ExternalPathPermissionCheck.is_required, for a non-empty path:      *)
(* false when the path, after ~ expansion and resolution of links and "..", *)
(* lies inside one of the allowed directories (cwd, plan, agents, commands, *)
(* skills); true when it lies outside all of them, also when ".." leaves an *)
(* allowed directory; true when the path cannot be resolved (NUL byte, a    *)
(* value that is no path).                                                  *)

PathTools == {"read_file", "write_file", "grep_search"}

(* The paths of PathArgs that lie inside an allowed directory once resolved *)
PathsInside ==
    {MkPath("rel", <<"a.txt">>),
     MkPath("abs", <<"work", "..", "work", "b">>),
     MkPath("home", <<".meto", "plans", "p.md">>),
     MkPath("abs", <<"tmp", "in", "x">>)}

(* The paths of PathArgs that lie outside every allowed directory *)
PathsOutside ==
    {MkPath("abs", <<"etc", "passwd">>),
     MkPath("rel", <<"..", "etc">>),
     MkPath("home", <<"notes">>),
     MkPath("rel", <<"link", "shadow">>)}

ExpectedRequired(p) ==
    CASE p.kind \in {"nul", "nonpath"} -> TRUE
      [] p \in PathsInside -> FALSE
      [] p \in PathsOutside -> TRUE

NonEmptyPathArgs == {p \in PathArgs : p.kind \notin {"absent", "empty"}}

C15_ExternalPathCheck ==
    /\ NonEmptyPathArgs =
          PathsInside \cup PathsOutside \cup {NulPath, NonPath}
    /\ (rt.phase \notin {"idle", "enter"} /\ ~ rt.yolo /\ rt.tool \in PathTools
          /\ rt.params.path \in NonEmptyPathArgs) =>
          /\ (rt.phase = "prompt" \/ rt.prompted) <=> ExpectedRequired(rt.params.path)
          /\ rt.prompted => prompts # <<>>

(* read_file of ../etc from the working directory asks for permission *)
C15_Witness ==
    /\ ~ rt.yolo
    /\ rt.tool = "read_file"
    /\ rt.params.path = MkPath("rel", <<"..", "etc">>)
    /\ rt.phase = "prompt"

----------------------------------------------------------------------------
(* Vocabulary of the hooks properties *)

InHooks == pc = "hooks" /\ hk.phase # "idle"

(* The position in the hooks file of the hook with the name *)
PosOf(name) == CHOOSE i \in 1..Len(hk.config) : hk.config[i].name = name

(* The hook of the file applies to the call *)
AppliesTo(h, event, tool) ==
    /\ h.event = event
    /\ (tool = NoTool \/ h.tools = {} \/ tool \in h.tools)

(* How the last process started for the hook ends: the run with             *)
(* sys.executable when it gives an exit code, else the run by the shell     *)
FinalOutcome(h) ==
    IF h.behaviour.python /\ h.behaviour.py \in ExitOutcomes
    THEN h.behaviour.py
    ELSE h.behaviour.sh

----------------------------------------------------------------------------
(* C16: when run_hooks dispatches pre_tool_use, the matching hooks run in   *)
(* the order of the configuration and execution stops at the first hook     *)
(* whose result is blocked: no hook after it runs and the returned list     *)
(* ends with that blocked result.                                           *)

C16_PreToolUseStopsAtFirstBlock ==
    (InHooks /\ hk.event = "pre_tool_use") =>
        /\ Len(hk.results) = Len(hk.executed)
        /\ Len(hk.executed) <= Len(hk.matched)
        /\ \A k \in 1..Len(hk.executed) :
              /\ hk.executed[k] = hk.matched[k].name
              /\ hk.results[k].hook_name = hk.executed[k]
        /\ \A a, b \in 1..Len(hk.executed) :
              a < b => PosOf(hk.executed[a]) < PosOf(hk.executed[b])
        /\ \A k \in 1..Len(hk.results) :
              hk.results[k].blocked => k = Len(hk.results)
        /\ (hk.results # <<>> /\ hk.results[Len(hk.results)].blocked) =>
              hk.phase = "return"
        /\ hk.phase = "return" =>
              \/ hk.results # <<>> /\ hk.results[Len(hk.results)].blocked
              \/ Len(hk.results) = Len(hk.matched)
        /\ hk.phase = "return" =>
              hk.results = run_hooks(hk.config, hk.event, hk.tool)

(* Two hooks match, the first blocks and the second never runs *)
C16_Witness ==
    /\ InHooks
    /\ hk.event = "pre_tool_use"
    /\ hk.phase = "return"
    /\ Len(hk.matched) = 2
    /\ hk.executed = <<"1">>
    /\ hk.results[1].blocked
    /\ hk.results[1].exit_code = EXIT_BLOCK

----------------------------------------------------------------------------
(* C17: a pre_tool_use hook that times out or fails unexpectedly (no shell  *)
(* runner, spawn error, any exception while running it) gives a result      *)
(* with blocked = true; the same failure in a post_tool_use or              *)
(* session_start hook gives blocked = false, is not raised, and the other   *)
(* hooks of the event still run.                                            *)
(* A script hook whose run with sys.executable times out is run again by    *)
(* the shell, and the result is the shell's: not blocked when that run      *)
(* exits with a code other than 2.                                          *)

TimedOutOrFailed(h) ==
    \/ h.behaviour.python /\ h.behaviour.py = "timeout"
    \/ FinalOutcome(h) \in {"timeout", "raises", "norunner"}

C17_FailedHookBlocksOnlyPreToolUse ==
    InHooks =>
        \A k \in 1..Len(hk.results) :
            TimedOutOrFailed(hk.matched[k]) =>
                /\ hk.event = "pre_tool_use" => hk.results[k].blocked
                /\ hk.event # "pre_tool_use" =>
                      /\ ~ hk.results[k].blocked
                      /\ hk.phase = "return" => Len(hk.results) = Len(hk.matched)

----------------------------------------------------------------------------
(* C18: the result of a hook from the exit code of its process: 0 gives     *)
(* success = true and blocked = false; the block code 2 gives blocked =     *)
(* true only when the event is pre_tool_use (else blocked = false, success  *)
(* = false); any other non-zero code gives success = false and blocked =    *)
(* false.                                                                   *)

C18_ExitCodeMapping ==
    InHooks =>
        \A k \in 1..Len(hk.results) :
            LET r == hk.results[k]
                out == FinalOutcome(hk.matched[k])
            IN  /\ out = "exit0" =>
                      (r.exit_code = 0 /\ r.success /\ ~ r.blocked)
                /\ out = "exit2" =>
                      /\ r.exit_code = 2
                      /\ ~ r.success
                      /\ r.blocked <=> (hk.event = "pre_tool_use")
                /\ out = "exit1" =>
                      (r.exit_code = 1 /\ ~ r.success /\ ~ r.blocked)
                /\ r.success <=> (out = "exit0")

(* A post_tool_use hook that exits with the block code does not block *)
C18_Witness ==
    /\ InHooks
    /\ hk.event = "post_tool_use"
    /\ hk.results # <<>>
    /\ hk.results[1].exit_code = EXIT_BLOCK
    /\ ~ hk.results[1].blocked
    /\ ~ hk.results[1].success

----------------------------------------------------------------------------
(* C19: get_hooks_for_event(event, tool) returns, in the order of the       *)
(* configuration, exactly the hooks of the event whose tool filter is empty *)
(* or holds the tool name; a hook with an empty filter applies to every     *)
(* tool and hooks of other events are never returned.                       *)

C19_HooksForEvent ==
    (InHooks /\ hk.phase # "enter") =>
        /\ \A k \in 1..Len(hk.matched) :
              /\ \E i \in 1..Len(hk.config) : hk.config[i] = hk.matched[k]
              /\ hk.matched[k].event = hk.event
              /\ hk.tool # NoTool =>
                    (hk.matched[k].tools = {} \/ hk.tool \in hk.matched[k].tools)
        /\ \A a, b \in 1..Len(hk.matched) :
              a < b => PosOf(hk.matched[a].name) < PosOf(hk.matched[b].name)
        /\ \A i \in 1..Len(hk.config) :
              AppliesTo(hk.config[i], hk.event, hk.tool) =>
                  \E k \in 1..Len(hk.matched) : hk.matched[k] = hk.config[i]

(* The first hook is for another tool, the second has no filter *)
C19_Witness ==
    /\ InHooks
    /\ hk.event = "pre_tool_use"
    /\ hk.tool = "list_dir"
    /\ Len(hk.config) = 2
    /\ hk.config[1].event = "pre_tool_use"
    /\ hk.config[1].tools = {"shell"}
    /\ hk.config[2].tools = {}
    /\ Len(hk.matched) = 1
    /\ hk.matched[1].name = "2"

----------------------------------------------------------------------------
(* C20: a subagent started through run_task / _execute_task runs on a       *)
(* brand-new Session, distinct from the parent's, whose history is empty    *)
(* when the child loop starts whatever the length of the parent's history;  *)
(* the child's messages are never appended to the parent's history.         *)
(* Stated of a run_task call for a built-in agent type whose handler ran:   *)
(* the call has started a child on a new session with an empty history,     *)
(* its result is not the error of a subagent that never started, and        *)
(* run_tool has left the caller's history alone.                            *)

TaskCallReturned ==
    /\ pc = "direct"
    /\ rt.phase = "return"
    /\ rt.tool = "run_task"
    /\ rt.ran
    /\ rt.params.agent_name \in BUILTIN_AGENTS

C20_TaskRunsOnNewSession ==
    TaskCallReturned =>
        /\ rt.child.started
        /\ rt.child.session = "new"
        /\ rt.child.history = <<>>
        /\ rt.result # SubagentErrorText
        /\ history = <<>>

----------------------------------------------------------------------------
(* C21: _execute_task never raises: an unknown agent name, or any exception *)
(* raised inside the child loop, comes back to the parent as a string that  *)
(* contains "subagent error".                                               *)

TaskCallEnded ==
    /\ pc = "direct"
    /\ rt.tool = "run_task"
    /\ rt.ran
    /\ rt.phase \in {"return", "raised"}

C21_ExecuteTaskNeverRaises ==
    TaskCallEnded =>
        /\ rt.phase = "return"
        /\ rt.kind \in {"normal", "error"}
        /\ rt.kind = "error" => Contains(rt.result, "(subagent error: ")
        /\ rt.params.agent_name \notin BUILTIN_AGENTS =>
              (rt.kind = "error" /\ Contains(rt.result, "(subagent error: "))

(* run_task for an agent name the registry does not know *)
C21_Witness ==
    /\ TaskCallEnded
    /\ rt.params.agent_name = "nobody"
    /\ rt.phase = "return"
    /\ rt.kind = "error"
    /\ Contains(rt.result, "(subagent error: ")

----------------------------------------------------------------------------
(* C22: while a run_task tool call runs a child loop, the parent loop's     *)
(* turn counter does not advance, the whole child run counts as one tool    *)
(* execution of the current parent turn, and the child exhausting its own   *)
(* budget does not end the parent run.                                      *)
(* Stated of a run_task call for a built-in agent type whose handler ran:   *)
(* a child loop has run, and the caller has the turn counter, the single    *)
(* execution and the open outcome it had at the call.                       *)

----------------------------------------------------------------------------
(* C23: the string _execute_task returns never exceeds the character budget *)
(* MAX_TOOL_OUTPUT_CHARS: the child's yielded texts are joined in yield     *)
(* order and cut to the budget, and when the child yields nothing the       *)
(* result is the placeholder "(subagent returned no output)".               *)
(* Stated of a run_task call for a built-in agent type whose handler ran:   *)
(* the result is the child's joined and cut output, or the placeholder.     *)

C23_TaskResultIsChildOutput ==
    TaskCallReturned =>
        /\ rt.kind = "normal"
        /\ rt.result \in {SubagentOutput(rt.params.agent_name), NoOutputText}

----------------------------------------------------------------------------
(* Vocabulary of the session properties *)

CurrentFile(session) == session.files[session.session_id]
LoggedRoles == {"user", "assistant", "tool"}

----------------------------------------------------------------------------
(* C24: round trip: for any sequence of messages written through            *)
(* FileSessionLogger (log_user, log_assistant, log_tool), load_session on   *)
(* the same session id returns the same ordered sequence of {role, content, *)
(* tool_calls?, tool_call_id?}, with timestamp and session_id stripped.     *)
(* Each write adds exactly the written message at the end of what           *)
(* load_session returns for the file.                                       *)

C24_LogRoundTrip ==
    [][\A msg \in LoopMessages :
          (AppendAndLog(msg)) =>
              (/\ load_session(CurrentFile(ses)') =
                      Append(load_session(CurrentFile(ses)), msg)
               /\ \A i \in 1..Len(CurrentFile(ses)') :
                      DOMAIN load_session(CurrentFile(ses)')[i]
                          \subseteq {"role", "content", "tool_calls", "tool_call_id"})]_vars

(* A file with an assistant message that has tool calls and a tool result *)
C24_Witness ==
    /\ pc = "session"
    /\ Len(CurrentFile(ses)) >= 2
    /\ load_session(CurrentFile(ses)) = history
    /\ \E i \in 1..Len(history) : "tool_calls" \in DOMAIN history[i]
    /\ \E i \in 1..Len(history) :
          history[i].role = "tool" /\ history[i].tool_call_id = "x"

----------------------------------------------------------------------------
(* C25: the tool names advertised in the tool schema, the names handled by  *)
(* the dispatch of run_tool and the names with an entry in the permission   *)
(* policy table are the same set, and each name has exactly one policy: a   *)
(* call of run_tool ends in the unknown-tool error exactly for the names    *)
(* outside the schema, and is prompted without detail exactly for them.     *)

SchemaNames == SeqToSet(TOOLS)

C25_ToolNameSetsAgree ==
    /\ SchemaNames = DispatchNames
    /\ SchemaNames = PolicyNames
    /\ \A n \in SchemaNames :
          Cardinality({p \in {AlwaysRequire("command"), AlwaysRequire("url"),
                              NeverRequire, ExternalPath} :
                          PERMISSION_REQUIRED(n) = p}) = 1
    /\ pc = "direct" =>
          /\ rt.ran => rt.tool \in SchemaNames
          /\ (rt.phase = "return" /\ rt.kind # "cancelled") =>
                (rt.result = UnknownToolError(rt.tool) <=> rt.tool \notin SchemaNames)
          /\ \A i \in 1..Len(prompts) :
                prompts[i].detail = NoDetail <=> prompts[i].tool \notin SchemaNames

(* An advertised tool was prompted with its own detail and its handler ran *)
C25_Witness ==
    /\ pc = "direct"
    /\ rt.tool = "fetch"
    /\ rt.tool \in SchemaNames
    /\ rt.phase = "return"
    /\ rt.ran
    /\ Len(prompts) = 1
    /\ prompts[1].detail # NoDetail

----------------------------------------------------------------------------
(* C26: after any sequence of todo-list updates (directly or through the    *)
(* manage_todos tool) the stored list holds at most 20 items, at most one   *)
(* item with status in_progress, and every item has non-empty content,      *)
(* non-empty activeForm and a status in {pending, in_progress, completed}.  *)

C26_TodoListInvariant ==
    pc = "todos" =>
        /\ Len(ses.todos) <= 20
        /\ Cardinality({i \in 1..Len(ses.todos) :
                            ses.todos[i].status = "in_progress"}) <= 1
        /\ \A i \in 1..Len(ses.todos) :
              /\ ses.todos[i].content # ""
              /\ ses.todos[i].activeForm # ""
              /\ ses.todos[i].status \in {"pending", "in_progress", "completed"}

(* A full list of 20 items is stored and a longer one has been refused *)
C26_Witness ==
    /\ pc = "todos"
    /\ Len(ses.todos) = 20
    /\ ses.todos[20].status = "in_progress"
    /\ ses.raised = "Max 20 tasks allowed"

----------------------------------------------------------------------------
(* C27: a session has at most one active mode: entering a mode while one is *)
(* active is rejected (enter_mode raises RuntimeError, /plan prints a       *)
(* notice) and leaves the active mode and its plan file unchanged;          *)
(* exit_mode returns the mode's exit result, records it as last_mode_exit   *)
(* and leaves the session with no active mode.                              *)

SameMode(a, b) ==
    /\ a.mode = b.mode
    /\ a.plan_file = b.plan_file
    /\ a.plan_content = b.plan_content
    /\ a.plans = b.plans

----------------------------------------------------------------------------
(* C28: /done and /implement change nothing when no mode is active; when a  *)
(* mode is active they exit it and clear the history, so that afterwards    *)
(* the mode is None and the history is exactly one system follow-up message *)
(* naming the plan file if the plan file exists with content, and empty     *)
(* otherwise.                                                               *)

SameSession(a, b) ==
    /\ SameMode(a, b)
    /\ a.session_id = b.session_id
    /\ a.ids = b.ids
    /\ a.files = b.files
    /\ a.todos = b.todos
    /\ a.start_implementation = b.start_implementation
    /\ a.last_mode_exit = b.last_mode_exit

C28_DoneAndImplement ==
    [][(CmdDone \/ CmdImplement) =>
          IF ses.mode = PyNone
          THEN history' = history /\ SameSession(ses', ses)
          ELSE /\ ses'.mode = PyNone
               /\ history' =
                    IF ses.plan_content \notin {PyNone, ""}
                    THEN <<[role |-> "system",
                            content |-> "FOLLOW THE PLAN stored in: " \o ses.plan_file]>>
                    ELSE <<>>]_vars

(* A message was logged, then /plan, the plan written, and /done *)
C28_Witness ==
    /\ pc = "session"
    /\ ses.mode = PyNone
    /\ Len(ses.files[1]) = 1
    /\ ses.session_id = 2
    /\ ses.last_mode_exit.artifact_content = "# Plan"
    /\ Len(history) = 1
    /\ history[1].role = "system"

----------------------------------------------------------------------------
(* C29: Session.clear() leaves the session with an empty history, an empty  *)
(* todo list, plan mode and the start_implementation flag off, and a newly  *)
(* generated session id with a new logger for that id.                      *)

C29_ClearResetsSession ==
    [][SessionClear =>
          (/\ history' = <<>>
           /\ ses'.todos = <<>>
           /\ ~ ses'.plan_mode
           /\ ~ ses'.start_implementation
           /\ ses'.session_id \notin 1..ses.ids
           /\ CurrentFile(ses)' = <<>>)]_vars

----------------------------------------------------------------------------
(* C30: Session.renew() keeps the history unchanged, assigns a new session  *)
(* id and a fresh todo list, and writes to the new session's log exactly    *)
(* one entry per history message, in history order.                         *)

C30_RenewLogsEveryMessage ==
    [][SessionRenew =>
          (/\ history' = history
           /\ ses'.session_id \notin 1..ses.ids
           /\ ses'.todos = <<>>
           /\ Len(CurrentFile(ses)') = Len(history)
           /\ \A i \in 1..Len(history) :
                  i <= Len(CurrentFile(ses)') =>
                      LoadLine(CurrentFile(ses)'[i]).role = history[i].role)]_vars

(* C30 as amended: one entry per user, assistant and tool message of the    *)
(* history, in history order; a system message is not written.              *)
C30_RenewLogsLoggedRoles ==
    [][SessionRenew =>
          (/\ history' = history
           /\ ses'.session_id \notin 1..ses.ids
           /\ ses'.todos = <<>>
           /\ load_session(CurrentFile(ses)') =
                  SelectSeq(history, LAMBDA m : m.role \in LoggedRoles))]_vars

(* Two messages logged, then renew: both session files hold the two lines *)
C30_Witness ==
    /\ pc = "session"
    /\ ses.steps = 3
    /\ ses.session_id = 2
    /\ Len(ses.files[1]) = 2
    /\ ses.files[2] # <<>>
    /\ load_session(ses.files[2]) = history
    /\ load_session(ses.files[1]) = history

----------------------------------------------------------------------------
(* C31: after any run of the agent loop on a logged session, the session    *)
(* log holds exactly one entry for every message the run appended to        *)
(* session.history, in the same order, so that load_session(session_id)     *)
(* equals session.history.                                                  *)
(* The 'Unknown tool: <name>' message of the loop is appended to the        *)
(* history without a call of session_logger.log_tool.                       *)

SameMessages(a, b) ==
    /\ Len(a) = Len(b)
    /\ \A i \in 1..Len(a) : a[i].role = b[i].role /\ a[i] = b[i]

C31_LogHoldsEveryMessage ==
    (InLoop /\ pc = "done") => SameMessages(log, history)

----------------------------------------------------------------------------
(* C32: in every turn with tool calls, the assistant message is appended to *)
(* history before any of its tools runs, and before the next model call     *)
(* every tool_call id listed in that assistant message has exactly one      *)
(* tool-role message with that tool_call_id appended after it.              *)
(* As stated (C32_EveryCallIdAnswered) it fails: a tool call whose type is  *)
(* not 'function' is skipped without a tool message.                        *)
(* Amended (C32_FunctionCallsAnswered): the calls of type 'function' have   *)
(* one tool message each, after the assistant message and in call order;    *)
(* the other calls have none.                                               *)

(* The tool messages for the id that come after position j of the history *)
AnswersAfter(j, id) == {k \in ToolMessagesFor(id) : k > j}

RunsOnlyListedCalls ==
    InLoop =>
        /\ ExecIds \cup PromptIds \subseteq {tc.id : tc \in AllCalls}
        /\ (pc = "run_tool" /\ rt.phase # "idle") => rt.id \in {tc.id : tc \in AllCalls}

C32_EveryCallIdAnswered ==
    /\ RunsOnlyListedCalls
    /\ AtTurnBoundary =>
          \A j \in AssistantIndexes :
              HasToolCalls(history[j]) =>
                  \A n \in 1..Len(history[j].tool_calls) :
                      Cardinality(AnswersAfter(j, history[j].tool_calls[n].id)) = 1

C32_FunctionCallsAnswered ==
    /\ RunsOnlyListedCalls
    /\ AtTurnBoundary =>
          \A j \in AssistantIndexes :
              HasToolCalls(history[j]) =>
                  LET calls == history[j].tool_calls
                  IN  /\ \A n \in 1..Len(calls) :
                            /\ ToolMessagesFor(calls[n].id) = AnswersAfter(j, calls[n].id)
                            /\ Cardinality(AnswersAfter(j, calls[n].id)) =
                                  IF calls[n].type = "function" THEN 1 ELSE 0
                      /\ \A m, n \in 1..Len(calls) :
                            (m < n /\ calls[m].type = "function"
                                   /\ calls[n].type = "function") =>
                                \A a \in AnswersAfter(j, calls[m].id),
                                   b \in AnswersAfter(j, calls[n].id) : a < b

(* A turn whose response lists a call of another type besides one that ran *)
C32_Witness ==
    /\ AtTurnBoundary
    /\ execs # <<>>
    /\ \E j \in AssistantIndexes :
          /\ HasToolCalls(history[j])
          /\ \E m, n \in 1..Len(history[j].tool_calls) :
                /\ history[j].tool_calls[m].type # "function"
                /\ history[j].tool_calls[n].type = "function"
                /\ history[j].tool_calls[n].id \in ExecIds
                /\ Cardinality(AnswersAfter(j, history[j].tool_calls[n].id)) = 1

----------------------------------------------------------------------------
(* C33: a SIGINT delivered while a child (subagent) loop is running inside  *)
(* a run_task tool call is observed by the parent loop: the parent run      *)
(* raises the interruption error at its next turn boundary instead of       *)
(* continuing with further model calls.                                     *)
(* Stated of a SIGINT that arrives while the handler of run_task runs for a *)
(* built-in agent type: a child loop is running, and the flag of the parent *)
(* loop is set by it.                                                       *)

TaskHandlerRunning ==
    /\ InLoop
    /\ pc = "run_tool"
    /\ rt.tool = "run_task"
    /\ rt.phase = "running"
    /\ rt.params.agent_name \in BUILTIN_AGENTS

----------------------------------------------------------------------------
(* C34: during a run of the agent loop the session history only grows: each *)
(* state's history has the previous state's history as a prefix, and no     *)
(* message already in the history is removed, reordered or rewritten.       *)

IsPrefix(a, b) == Len(a) <= Len(b) /\ SubSeq(b, 1, Len(a)) = a

C34_HistoryOnlyGrows ==
    [][InLoop => (IsPrefix(history, history') /\ Len(history') <= Len(history) + 1)]_vars

(* A run that appended the prompt, two responses and two tool results *)
C34_Witness ==
    /\ Ended
    /\ Len(history) >= 5
    /\ history[1].role = "user"
    /\ history[2].role = "assistant"
    /\ history[3].role = "tool"
    /\ history[Len(history)].role = "assistant"
    /\ execs # <<>>

----------------------------------------------------------------------------
(* C35: under ExternalPathCheck, permission is required for every call      *)
(* unless its path parameter resolves inside one of the whitelisted         *)
(* directories; this includes calls that give no path parameter or an empty *)
(* one.                                                                     *)
(* As stated (C35_RequiredUnlessPathInside) it fails: is_required returns   *)
(* False for a call without a path or with an empty one.                    *)
(* Amended (C35_RequiredUnlessInsideOrNoPath): permission is required       *)
(* exactly for a path that is given, not empty, and does not resolve inside *)
(* an allowed directory.                                                    *)

ExternalPathCall ==
    /\ pc = "direct"
    /\ rt.phase \notin {"idle", "enter"}
    /\ ~ rt.yolo
    /\ rt.tool \in PathTools

AskedPermission == rt.phase = "prompt" \/ rt.prompted

C35_RequiredUnlessPathInside ==
    ExternalPathCall => (AskedPermission <=> rt.params.path \notin PathsInside)

C35_RequiredUnlessInsideOrNoPath ==
    ExternalPathCall =>
        /\ AskedPermission <=> rt.params.path \notin PathsInside \cup {NoPath, EmptyPath}
        /\ rt.params.path \in {NoPath, EmptyPath} =>
              (prompts = <<>> /\ (rt.phase = "return" => rt.ran))

(* write_file without a path parameter goes to its handler unprompted *)
C35_Witness ==
    /\ ExternalPathCall
    /\ rt.tool = "write_file"
    /\ rt.params.path = NoPath
    /\ rt.phase = "return"
    /\ rt.ran
    /\ prompts = <<>>

----------------------------------------------------------------------------
(* C36: run_agent_loop restores the SIGINT handler that was installed       *)
(* before it started, on every exit path (Done, Interrupted,                *)
(* MaxTurnsExceeded, escaping exception); when the loop of a subagent has   *)
(* ended inside a run_task call, the handler of the parent loop is the      *)
(* active one again.                                                        *)

C36_HandlerRestoredOnExit ==
    /\ (InLoop /\ pc = "done") => sigint = "original"
    /\ (InLoop /\ pc = "run_tool" /\ rt.tool = "run_task" /\ rt.phase = "return") =>
           sigint = "loop"

----------------------------------------------------------------------------
(* C37: in the list run_hooks returns for pre_tool_use, the results         *)
(* correspond to a prefix of the matching hooks in the order of the         *)
(* configuration and only the last result can have blocked = true; for      *)
(* post_tool_use and session_start there is exactly one result per matching *)
(* hook and none has blocked = true.                                        *)

ResultsOfPrefix(results, hooks) ==
    /\ Len(results) <= Len(hooks)
    /\ \A k \in 1..Len(results) : results[k].hook_name = hooks[k].name

C37_ReturnedListShape ==
    (InHooks /\ hk.phase = "return") =>
        LET hooks == get_hooks_for_event(hk.config, hk.event, hk.tool)
        IN  /\ ResultsOfPrefix(hk.results, hooks)
            /\ hk.event = "pre_tool_use" =>
                  \A k \in 1..(Len(hk.results) - 1) : ~ hk.results[k].blocked
            /\ hk.event \in {"post_tool_use", "session_start"} =>
                  /\ Len(hk.results) = Len(hooks)
                  /\ \A k \in 1..Len(hk.results) : ~ hk.results[k].blocked

(* Two post_tool_use hooks: one exits with the block code, one times out;   *)
(* the list has both results and neither is blocked                         *)
C37_Witness ==
    /\ InHooks
    /\ hk.phase = "return"
    /\ hk.event = "post_tool_use"
    /\ Len(hk.matched) = 2
    /\ Len(hk.results) = 2
    /\ hk.results[1].exit_code = EXIT_BLOCK
    /\ hk.results[2].error = "Timeout"
    /\ ~ hk.results[1].blocked
    /\ ~ hk.results[2].blocked

----------------------------------------------------------------------------
(* C38: during one run_hooks dispatch, the command of each matching hook is *)
(* executed at most once.                                                   *)

TimesStarted(name) == Cardinality({i \in 1..Len(hk.started) : hk.started[i] = name})

C38_CommandRunsAtMostOnce ==
    InHooks => \A k \in 1..Len(hk.matched) : TimesStarted(hk.matched[k].name) <= 1

----------------------------------------------------------------------------
(* C39: a todo-list update that fails validation (it raises, or returns     *)
(* 'Error: ...' when made through the manage_todos tool) leaves the         *)
(* previously stored list unchanged; a successful update replaces the whole *)
(* list with the validated items in the given order.                        *)

(* The items as stored: stripped content and activeForm, lowered status,    *)
(* absent status read as pending, one stored item per given item            *)
StoredAsGiven(stored, items) ==
    /\ Len(stored) = Len(items)
    /\ \A i \in 1..Len(items) :
          /\ stored[i].content = ItemContent(items[i])
          /\ stored[i].status = ItemStatus(items[i])
          /\ stored[i].activeForm = ItemActiveForm(items[i])

C39_FailedUpdateKeepsList ==
    [][\A items \in TodoInputs :
          TodosUpdateWith(items) =>
              /\ ses'.raised # "none" => ses'.todos = ses.todos
              /\ ses'.raised = "none" => StoredAsGiven(ses'.todos, items)]_vars

(* A stored list of two items has survived an update refused for its two    *)
(* in_progress items                                                        *)
C39_Witness ==
    /\ pc = "todos"
    /\ ses.raised = "Only one task can be in_progress at a time"
    /\ Len(ses.todos) = 2
    /\ ses.todos[1].status = "completed"

----------------------------------------------------------------------------
(* C40: run_agent_loop called with an empty or whitespace-only prompt       *)
(* returns immediately without effect: nothing is appended to the history   *)
(* or the session log, no model call is made and the SIGINT handler is not  *)
(* replaced.                                                                *)

C40_BlankPromptHasNoEffect ==
    (InLoop /\ prompt \in {"", "  "}) =>
        /\ pc \in {"start", "done"}
        /\ pc = "done" => outcome = "Done"
        /\ history = <<>>
        /\ log = <<>>
        /\ modelCalls = 0
        /\ sigint = "original"
        /\ ~ interrupted
        /\ execs = <<>>
        /\ prompts = <<>>
        /\ yielded = <<>>

(* The call with a prompt of two spaces has returned *)
C40_Witness ==
    /\ InLoop
    /\ pc = "done"
    /\ prompt = "  "
    /\ outcome = "Done"
    /\ history = <<>>

====
